---- MODULE Spec2Model ----
(***************************************************************************)
(* Model of the Contract-Extractor-App service (app/*.py):                 *)
(*   - utils.robust_json_parser, utils.parse_date_string                   *)
(*   - data_processor.process_extracted_data and the tail of               *)
(*     extract_contract_details_from_text                                  *)
(*   - llm_services.get_gemini_embeddings_batch / get_gemini_generation    *)
(*   - vector_db_manager.VectorDBManager.populate_from_xlsx                *)
(*   - config.validate_config and main.lifespan (startup)                  *)
(*                                                                         *)
(* Python values are records tagged by a field t ("None", "int", "float",  *)
(* "bool", "str", "list", "dict"); an exception that leaves a function is  *)
(* the value [t |-> "raise", exc |-> <class>].  Strings are sequences of   *)
(* characters (or of lexical tokens where the code only looks at tokens).  *)
(***************************************************************************)
EXTENDS Integers, Sequences, FiniteSets, TLC

(***************************************************************************)
(* Bounds of the model.                                                    *)
(***************************************************************************)
MaxLen == 3        \* longest field string the LLM object carries
MaxTextLen == 3    \* longest LLM response, in tokens
MaxTexts == 3      \* most texts handed to one get_gemini_embeddings_batch call
MaxRows == 2       \* most rows of the spreadsheet
MaxPopulateCalls == 2    \* most calls of populate_from_xlsx in one run
MaxCallers == 2    \* most callers inside populate_from_xlsx at one time
MaxK == 3          \* largest k a query asks for

(***************************************************************************)
(* State.                                                                  *)
(***************************************************************************)
VARIABLES
    \* tail of extract_contract_details_from_text (the Output Normalizer)
    llm_text,          \* llm_response_text, the tokens of the LLM response
    llm_object,        \* the JSON object the members token "P" denotes
    norm_pc,           \* "idle", "parse", "process", "assemble", "done"
    raw_extracted,     \* raw_extracted_data_dict
    processed_data,    \* processed_data
    extract_result,    \* what extract returns (or raises)
    \* config.py, as resolved when the module is imported
    GEMINI_API_KEY,          \* TRUE when a non-empty credential is configured
    TOP_K_RETRIEVAL,
    EMBEDDING_BATCH_SIZE,
    \* one call of llm_services.get_gemini_generation
    gen_pc,            \* "idle", "enter", "call", "sleep", "done"
    gen_prompt,        \* prompt
    gen_attempt,       \* attempt, the loop variable of line 89
    gen_calls,         \* calls of model.generate_content made so far
    gen_sleeps,        \* calls of time.sleep(delay) made so far
    gen_response,      \* outcome of the latest generate_content call
    gen_result,        \* the value returned
    \* one call of llm_services.get_gemini_embeddings_batch
    emb_pc,            \* "idle", "enter", "call", "sleep", "done"
    emb_texts,         \* texts
    emb_attempt,       \* attempt, the loop variable of line 33
    emb_i,             \* i, the loop variable of line 36 (start of the chunk)
    emb_current,       \* current_batch_embeddings_for_this_attempt
    emb_calls,         \* calls of genai.embed_content made so far
    emb_sleeps,        \* calls of time.sleep(delay) made so far
    emb_last,          \* outcome of the latest embed_content call
    emb_result,        \* the list returned
    \* the VectorDBManager and the calls of populate_from_xlsx
    collection,        \* the records of self.collection
    xlsx,              \* the file at xlsx_path, as pd.read_excel finds it
    pop_pc,            \* "idle", or "embed" inside get_gemini_embeddings_batch
    pop_force,         \* force_repopulate of the latest call
    pop_calls,         \* calls of populate_from_xlsx made so far
    pop_outcome,       \* the return path the latest call took
    pop_ids,           \* ids, as the row indexes they are built from
    pop_reads,         \* calls of pd.read_excel made so far
    pop_writes,        \* calls of collection.add made so far
    pop_deletes,       \* calls of client.delete_collection made so far
    collection_missing, \* the store holds no collection of collection_name
    \* the process, from the import of config.py to the serving of requests
    CHROMA_DB_PATH,    \* what is at the path: "dir", "project_root" or "file"
    app_phase,         \* "import", "lifespan", "populating", "serving", "failed"
    config_error,      \* what validate_config raised, None if nothing
    db_manager_instance,   \* TRUE once lifespan has built the VectorDBManager
    \* one call of VectorDBManager.query_documents
    qry_pc,            \* "idle", "embed" inside get_gemini_embeddings_batch, "done"
    qry_text,          \* query_text
    qry_k,             \* k
    qry_n,             \* num_items_in_collection
    qry_embeds,        \* calls of get_gemini_embeddings_batch made by the query
    qry_requested,     \* n_results of each collection.query call made, in order
    qry_answer,        \* what collection.query answered
    qry_result,        \* the list returned
    \* one call of extract_contract_details_from_text, up to the normalizer
    ext_pc,            \* "idle", "query", "generate", "normalize", "done"
    input_text,        \* input_text
    use_rag,           \* use_rag
    retrieved_contexts,    \* retrieved_contexts
    ext_queries,       \* calls of query_documents made by extract
    ext_generations,   \* calls of get_gemini_generation made by extract
    llm_response_text, \* what get_gemini_generation returned
    \* one request to POST /admin/populate-database
    ep_pc,             \* "idle", or "populate" inside populate_from_xlsx
    ep_status,         \* the status code of the latest response, 0 before one
    ep_item_count,     \* item_count of the latest 200 response
    \* callers of populate_from_xlsx that run at the same time, none forced
    conc_pc,           \* per caller: "idle", "embed", "add" or "done"
    conc_ids,          \* per caller: ids, as the row indexes they are built from
    conc_emb,          \* per caller: embeddings_list
    add_attempts,      \* the ids of each collection.add call made, in order
    readded            \* the ids handed to collection.add while the store held them

normVars == <<llm_text, llm_object, norm_pc, raw_extracted, processed_data, extract_result>>
cfgVars == <<GEMINI_API_KEY, TOP_K_RETRIEVAL, EMBEDDING_BATCH_SIZE, CHROMA_DB_PATH>>
appVars == <<app_phase, config_error, db_manager_instance>>
genVars == <<gen_pc, gen_prompt, gen_attempt, gen_calls, gen_sleeps, gen_response, gen_result>>
embVars ==
    <<emb_pc, emb_texts, emb_attempt, emb_i, emb_current, emb_calls, emb_sleeps, emb_last,
      emb_result>>
popVars ==
    <<collection, xlsx, pop_pc, pop_force, pop_calls, pop_outcome, pop_ids, pop_reads,
      pop_writes, pop_deletes, collection_missing>>
qryVars ==
    <<qry_pc, qry_text, qry_k, qry_n, qry_embeds, qry_requested, qry_answer, qry_result>>
concVars == <<conc_pc, conc_ids, conc_emb, add_attempts, readded>>
epVars == <<ep_pc, ep_status, ep_item_count>>
extVars ==
    <<ext_pc, input_text, use_rag, retrieved_contexts, ext_queries, ext_generations,
      llm_response_text>>

\* What the actions of one component leave alone.
otherThanNorm == <<cfgVars, appVars, genVars, embVars, popVars, qryVars, extVars, epVars, concVars>>
otherThanGen == <<cfgVars, appVars, normVars, embVars, popVars, qryVars, extVars, epVars, concVars>>
otherThanEmb == <<cfgVars, appVars, normVars, genVars, popVars, qryVars, extVars, epVars, concVars>>
otherThanPop == <<cfgVars, appVars, normVars, genVars, qryVars, extVars, epVars, concVars>>
otherThanApp == <<cfgVars, normVars, genVars, qryVars, extVars, epVars, concVars>>
otherThanQry == <<cfgVars, appVars, normVars, genVars, popVars, extVars, epVars, concVars>>
otherThanEp == <<cfgVars, appVars, normVars, genVars, qryVars, extVars, concVars>>
otherThanConc ==
    <<cfgVars, appVars, normVars, genVars, embVars, qryVars, extVars, epVars, xlsx, pop_pc,
      pop_force, pop_calls, pop_outcome, pop_ids, pop_reads, pop_writes, pop_deletes,
      collection_missing>>
otherThanExt == <<cfgVars, appVars, popVars, epVars, concVars>>

(***************************************************************************)
(* Python values.                                                          *)
(***************************************************************************)
None == [t |-> "None"]
PyInt(n) == [t |-> "int", v |-> n]
PyBool(b) == [t |-> "bool", v |-> b]
PyStr(s) == [t |-> "str", s |-> s]
PyList == [t |-> "list"]
PyDict(d) == [t |-> "dict", d |-> d]
Raise(e) == [t |-> "raise", exc |-> e]
IsRaise(r) == r.t = "raise"

RECURSIVE StripTrailingZeros(_, _)
StripTrailingZeros(num, scale) ==
    IF scale > 0 /\ num % 10 = 0
    THEN StripTrailingZeros(num \div 10, scale - 1)
    ELSE <<num, scale>>

\* A Python float holding the decimal num / 10^scale (kept in lowest form,
\* so that 6500.00 and 6500.0 are the same value).
PyFloat(num, scale) ==
    LET n == StripTrailingZeros(num, scale)
    IN  [t |-> "float", num |-> n[1], scale |-> n[2]]

\* try: <r> except <excs>: <handler>
TryExcept(r, excs, handler) ==
    IF IsRaise(r) /\ r.exc \in excs THEN handler ELSE r

\* The exception classes a bare "except Exception" catches here.
AnyException == {"ValueError", "TypeError", "JSONDecodeError", "Exception"}

\* dict.get(key): the value, or None when the key is absent.
dict_get(d, key) == IF key \in DOMAIN d THEN d[key] ELSE None

Range(s) == {s[i] : i \in 1..Len(s)}

RECURSIVE SeqsUpTo(_, _)
SeqsUpTo(S, n) ==
    IF n = 0 THEN {<<>>}
    ELSE LET shorter == SeqsUpTo(S, n - 1)
         IN  shorter \cup {Append(s, c) : s \in {x \in shorter : Len(x) = n - 1}, c \in S}

(***************************************************************************)
(* String primitives of Python used by the normalizer.                     *)
(***************************************************************************)
Digits == {"0", "1", "2", "3", "4", "5", "6", "7", "8", "9"}
DigitVal(c) ==
    CASE c = "0" -> 0 [] c = "1" -> 1 [] c = "2" -> 2 [] c = "3" -> 3
      [] c = "4" -> 4 [] c = "5" -> 5 [] c = "6" -> 6 [] c = "7" -> 7
      [] c = "8" -> 8 [] c = "9" -> 9

RECURSIVE DigitsToNat(_)
DigitsToNat(s) ==
    IF s = <<>> THEN 0
    ELSE 10 * DigitsToNat(SubSeq(s, 1, Len(s) - 1)) + DigitVal(s[Len(s)])

\* str.strip() for a set ws of whitespace characters.
RECURSIVE LStrip(_, _)
LStrip(s, ws) == IF s # <<>> /\ s[1] \in ws THEN LStrip(Tail(s), ws) ELSE s
RECURSIVE RStrip(_, _)
RStrip(s, ws) ==
    IF s # <<>> /\ s[Len(s)] \in ws THEN RStrip(SubSeq(s, 1, Len(s) - 1), ws) ELSE s
Strip(s, ws) == RStrip(LStrip(s, ws), ws)

Space == {" "}

\* int(s) of Python for a string: surrounding whitespace and one sign are
\* accepted, the rest must be a non-empty run of digits.
py_int(s) ==
    LET body == Strip(s, Space)
        signed == body # <<>> /\ body[1] \in {"-", "+"}
        digs == IF signed THEN Tail(body) ELSE body
    IN  IF digs # <<>> /\ Range(digs) \subseteq Digits
        THEN PyInt(IF signed /\ body[1] = "-" THEN 0 - DigitsToNat(digs) ELSE DigitsToNat(digs))
        ELSE Raise("ValueError")

\* float(s) of Python on a string of digits and decimal points: exactly one
\* point and at least one digit, anything else is a ValueError.
py_float(s) ==
    LET dots == {i \in 1..Len(s) : s[i] = "."}
    IN  IF Range(s) \subseteq (Digits \cup {"."}) /\ Cardinality(dots) = 1 /\ Len(s) >= 2
        THEN LET p == CHOOSE i \in dots : TRUE
                 digs == SubSeq(s, 1, p - 1) \o SubSeq(s, p + 1, Len(s))
             IN  PyFloat(DigitsToNat(digs), Len(s) - p)
        ELSE Raise("ValueError")

\* re.sub(r"[^\d\.]", "", s): keep the digits and the decimal points.
RECURSIVE re_sub_keep_digits_dots(_)
re_sub_keep_digits_dots(s) ==
    IF s = <<>> THEN <<>>
    ELSE (IF s[1] \in Digits \cup {"."} THEN <<s[1]>> ELSE <<>>)
         \o re_sub_keep_digits_dots(Tail(s))

\* re.search(r'\d+', s): the first maximal run of digits, <<>> when no match.
RECURSIVE TakeDigits(_)
TakeDigits(s) ==
    IF s # <<>> /\ s[1] \in Digits THEN <<s[1]>> \o TakeDigits(Tail(s)) ELSE <<>>
RECURSIVE re_search_digits(_)
re_search_digits(s) ==
    IF s = <<>> THEN <<>>
    ELSE IF s[1] \in Digits THEN TakeDigits(s)
    ELSE re_search_digits(Tail(s))

(***************************************************************************)
(* utils.parse_date_string.  A date string is a sequence of lexical        *)
(* tokens [k, v, w]: k = "num" is a run of w digits of value v; k = "mon"  *)
(* is a month name of month v (w = 1 abbreviated form only, 2 full form    *)
(* only, 3 both, as in "May"); k = " " is a run of whitespace; k = "word"  *)
(* is any other text; the remaining kinds are the punctuation characters.  *)
(***************************************************************************)
Num(v, w) == [k |-> "num", v |-> v, w |-> w]
Mon(v, w) == [k |-> "mon", v |-> v, w |-> w]
Lit(c) == [k |-> c, v |-> 0, w |-> 0]
WS == Lit(" ")

\* The list of formats tried by parse_date_string, in its declared order;
\* a format is the sequence of its directives and literal characters.
\* The same, with the day-first slash format ahead of the month-first one.
common_formats_day_first == <<
    <<"%d", ".", "%m", ".", "%Y">>,
    <<"%Y", "-", "%m", "-", "%d">>,
    <<"%d", "/", "%m", "/", "%Y">>,
    <<"%m", "/", "%d", "/", "%Y">>,
    <<"%Y", "/", "%m", "/", "%d">>,
    <<"%Y", ".", "%m", ".", "%d">>,
    <<"%d", "-", "%m", "-", "%Y">>,
    <<"%m", "-", "%d", "-", "%Y">>,
    <<"%b", " ", "%d", ",", " ", "%Y">>,
    <<"%d", " ", "%b", " ", "%Y">>,
    <<"%B", " ", "%d", ",", " ", "%Y">>,
    <<"%d", " ", "%B", " ", "%Y">>,
    <<"%d", ".", "%m", ".", "%y">>,
    <<"%m", "/", "%d", "/", "%y">> >>

common_formats == <<
    <<"%d", ".", "%m", ".", "%Y">>,
    <<"%Y", "-", "%m", "-", "%d">>,
    <<"%m", "/", "%d", "/", "%Y">>,
    <<"%d", "/", "%m", "/", "%Y">>,
    <<"%Y", "/", "%m", "/", "%d">>,
    <<"%Y", ".", "%m", ".", "%d">>,
    <<"%d", "-", "%m", "-", "%Y">>,
    <<"%m", "-", "%d", "-", "%Y">>,
    <<"%b", " ", "%d", ",", " ", "%Y">>,
    <<"%d", " ", "%b", " ", "%Y">>,
    <<"%B", " ", "%d", ",", " ", "%Y">>,
    <<"%d", " ", "%B", " ", "%Y">>,
    <<"%d", ".", "%m", ".", "%y">>,
    <<"%m", "/", "%d", "/", "%y">> >>

\* One token against one directive of a strptime format.
DirectiveMatches(tok, dir) ==
    CASE dir = "%d" -> tok.k = "num" /\ tok.w \in {1, 2} /\ tok.v \in 1..31
      [] dir = "%m" -> tok.k = "num" /\ tok.w \in {1, 2} /\ tok.v \in 1..12
      [] dir = "%Y" -> tok.k = "num" /\ tok.w = 4
      [] dir = "%y" -> tok.k = "num" /\ tok.w = 2
      [] dir = "%b" -> tok.k = "mon" /\ tok.w \in {1, 3}
      [] dir = "%B" -> tok.k = "mon" /\ tok.w \in {2, 3}
      [] OTHER -> tok.k = dir

IsLeap(y) == (y % 4 = 0 /\ y % 100 # 0) \/ y % 400 = 0
DaysInMonth(y, m) ==
    IF m = 2 THEN (IF IsLeap(y) THEN 29 ELSE 28)
    ELSE IF m \in {4, 6, 9, 11} THEN 30 ELSE 31

\* The value of the (only) token a directive of the set dirs matched, or dflt.
FieldOf(toks, fmt, dirs, dflt) ==
    LET at == {i \in 1..Len(fmt) : fmt[i] \in dirs}
    IN  IF at = {} THEN dflt ELSE toks[CHOOSE i \in at : TRUE].v

\* datetime.strptime(date_str, fmt): the date <<year, month, day>>, or a
\* ValueError when the string does not match the format or names no day of
\* the calendar.
strptime(toks, fmt) ==
    IF Len(toks) # Len(fmt) \/ \E i \in 1..Len(fmt) : ~DirectiveMatches(toks[i], fmt[i])
    THEN Raise("ValueError")
    ELSE LET yy == FieldOf(toks, fmt, {"%y"}, -1)
             year == IF yy >= 0 THEN (IF yy < 69 THEN 2000 + yy ELSE 1900 + yy)
                     ELSE FieldOf(toks, fmt, {"%Y"}, 1900)
             month == FieldOf(toks, fmt, {"%m", "%b", "%B"}, 1)
             day == FieldOf(toks, fmt, {"%d"}, 1)
         IN  IF year < 1 \/ day > DaysInMonth(year, month)
             THEN Raise("ValueError")
             ELSE [t |-> "date", year |-> year, month |-> month, day |-> day]

\* dt_obj.strftime("%Y-%m-%d"); the C library renders %Y without padding,
\* so a year below 1000 comes out with fewer than four digits.
YearWidth(y) == IF y >= 1000 THEN 4 ELSE IF y >= 100 THEN 3 ELSE IF y >= 10 THEN 2 ELSE 1
strftime_iso(dt) ==
    PyStr(<<Num(dt.year, YearWidth(dt.year)), Lit("-"), Num(dt.month, 2), Lit("-"),
            Num(dt.day, 2)>>)

\* The loop over common_formats from position i: the first format that
\* parses returns, a ValueError moves on to the next format.
RECURSIVE TryFormats(_, _)
TryFormats(toks, i) ==
    IF i > Len(common_formats) THEN PyStr(toks)
    ELSE LET dt == strptime(toks, common_formats[i])
         IN  IF IsRaise(dt) THEN TryFormats(toks, i + 1) ELSE strftime_iso(dt)

parse_date_string(date_str) ==
    IF date_str.t # "str" THEN None
    ELSE IF date_str.s = <<>> THEN None
    ELSE LET stripped == Strip(date_str.s, {WS})
         IN  IF stripped = <<>> THEN None ELSE TryFormats(stripped, 1)

(***************************************************************************)
(* utils.robust_json_parser.  The LLM response is a sequence of tokens:    *)
(* "fence_json" and "fence" for the markdown fence markers (three         *)
(* backquotes, with and without the json tag), the braces, "P" for the     *)
(* text of a well-formed list of JSON members (the object it denotes is    *)
(* llm_object), "x" for any other prose and " " for whitespace.            *)
(***************************************************************************)
TextTokens == {"fence_json", "fence", "{", "}", "P", "x", " "}

RECURSIVE Without(_, _)
Without(s, c) ==
    IF s = <<>> THEN <<>>
    ELSE (IF s[1] = c THEN <<>> ELSE <<s[1]>>) \o Without(Tail(s), c)

\* json.loads(json_str): the candidate is JSON only when it is one object,
\* "{" members "}" or "{" "}"; anything else is a JSONDecodeError.
json_loads(json_str, obj) ==
    LET body == Without(json_str, " ")
    IN  IF body = <<"{", "P", "}">> THEN PyDict(obj)
        ELSE IF body = <<"{", "}">> THEN PyDict(<<>>)
        ELSE Raise("JSONDecodeError")

\* str.find / str.rfind, 0-based, -1 when absent.
str_find(s, c) ==
    LET at == {i \in 1..Len(s) : s[i] = c}
    IN  IF at = {} THEN -1 ELSE (CHOOSE i \in at : \A j \in at : i <= j) - 1
str_rfind(s, c) ==
    LET at == {i \in 1..Len(s) : s[i] = c}
    IN  IF at = {} THEN -1 ELSE (CHOOSE i \in at : \A j \in at : i >= j) - 1

\* Lines 44-50: strip, then drop the markdown fence around the answer.
strip_fences(llm_output_string) ==
    LET cleaned == Strip(llm_output_string, Space)
    IN  IF cleaned # <<>> /\ cleaned[1] = "fence_json"
        THEN LET rest == Strip(Tail(cleaned), Space)
             IN  IF rest # <<>> /\ rest[Len(rest)] = "fence"
                 THEN Strip(SubSeq(rest, 1, Len(rest) - 1), Space)
                 ELSE rest
        ELSE IF cleaned # <<>> /\ cleaned[1] = "fence" /\ cleaned[Len(cleaned)] = "fence"
        THEN Strip(SubSeq(cleaned, 2, Len(cleaned) - 1), Space)
        ELSE cleaned

\* The try block of robust_json_parser (lines 43-62).
json_parser_body(llm_output_string, obj) ==
    LET cleaned_output == strip_fences(llm_output_string)
        json_start == str_find(cleaned_output, "{")
        json_end == str_rfind(cleaned_output, "}") + 1
    IN  IF json_start # -1 /\ json_end # -1 /\ json_start < json_end
        THEN json_loads(SubSeq(cleaned_output, json_start + 1, json_end), obj)
        ELSE None

robust_json_parser(llm_output_string, obj) ==
    IF llm_output_string = <<>> THEN None
    ELSE TryExcept(json_parser_body(llm_output_string, obj), AnyException, None)

(***************************************************************************)
(* data_processor.process_extracted_data: field coercion.                  *)
(***************************************************************************)
\* Lines 109-119, the body of the try for a string agreement_value.
\* The same, parsing every remainder with float().
agreement_value_of_str_always_float(val_str) ==
    LET cleaned_val_str == re_sub_keep_digits_dots(val_str)
    IN  IF cleaned_val_str # <<>> THEN py_float(cleaned_val_str) ELSE None

agreement_value_of_str(val_str) ==
    LET cleaned_val_str == re_sub_keep_digits_dots(val_str)
    IN  IF cleaned_val_str # <<>>
        THEN IF "." \in Range(cleaned_val_str)
             THEN py_float(cleaned_val_str)
             ELSE py_int(cleaned_val_str)
        ELSE None

\* agreement_value_field without the except clause of lines 120-122.
agreement_value_field_uncaught(raw_data) ==
    LET val_str == dict_get(raw_data, "agreement_value")
    IN  IF val_str.t # "None"
        THEN IF val_str.t \in {"int", "float", "bool"} THEN val_str
             ELSE IF val_str.t = "str" THEN agreement_value_of_str(val_str.s)
             ELSE None
        ELSE None

agreement_value_field(raw_data) ==
    LET val_str == dict_get(raw_data, "agreement_value")
    IN  IF val_str.t # "None"
        THEN IF val_str.t \in {"int", "float", "bool"} THEN val_str
             ELSE IF val_str.t = "str"
             THEN TryExcept(agreement_value_of_str(val_str.s), {"ValueError", "TypeError"}, None)
             ELSE None
        ELSE None

\* Lines 139-151: direct int(), then the first run of digits.
\* The same, without the search for a run of digits.
renewal_days_of_str_direct_only(renewal_days_val) ==
    TryExcept(py_int(renewal_days_val), {"ValueError"}, None)

renewal_days_of_str(renewal_days_val) ==
    LET direct == py_int(renewal_days_val)
        match == re_search_digits(renewal_days_val)
    IN  IF IsRaise(direct) /\ direct.exc = "ValueError"
        THEN IF match # <<>>
             THEN TryExcept(py_int(match), {"ValueError"}, None)
             ELSE None
        ELSE direct

renewal_notice_days_field(raw_data) ==
    LET renewal_days_val == dict_get(raw_data, "renewal_notice_days")
    IN  IF renewal_days_val.t # "None"
        THEN IF renewal_days_val.t \in {"int", "bool"} THEN renewal_days_val
             ELSE IF renewal_days_val.t = "str" THEN renewal_days_of_str(renewal_days_val.s)
             ELSE None
        ELSE None

\* The keys process_extracted_data assigns in its result.
processed_keys ==
    {"agreement_value", "agreement_start_date", "agreement_end_date", "renewal_notice_days"}

process_extracted_data(raw_data) ==
    LET fields == [key \in processed_keys |->
                     CASE key = "agreement_value" -> agreement_value_field(raw_data)
                       [] key = "agreement_start_date" ->
                            parse_date_string(dict_get(raw_data, "agreement_start_date"))
                       [] key = "agreement_end_date" ->
                            parse_date_string(dict_get(raw_data, "agreement_end_date"))
                       [] key = "renewal_notice_days" -> renewal_notice_days_field(raw_data)]
        raised == {key \in processed_keys : IsRaise(fields[key])}
    IN  IF raised # {} THEN fields[CHOOSE key \in raised : TRUE] ELSE PyDict(fields)

\* Line 208 of extract_contract_details_from_text.
expected_keys ==
    {"agreement_value", "agreement_start_date", "agreement_end_date", "renewal_notice_days"}

\* Line 211: final_data = {key: processed_data.get(key) for key in expected_keys}
final_data_of(processed) ==
    PyDict([key \in expected_keys |-> dict_get(processed, key)])

\* Python truthiness of what the tail of extract tests with "not".
Truthy(val) ==
    CASE val.t = "None" -> FALSE
      [] val.t = "str" -> val.s # <<>>
      [] val.t = "dict" -> DOMAIN val.d # {}
      [] OTHER -> TRUE

(***************************************************************************)
(* Inputs of the Output Normalizer: the objects an LLM response may carry. *)
(***************************************************************************)
SixKeys ==
    {"agreement_value", "agreement_start_date", "agreement_end_date",
     "renewal_notice_days", "party_one", "party_two"}

ValueChars == {"1", ".", "$"}
RenewalChars == {"6", "d", " "}

IsoDate(y, m, d) == <<Num(y, 4), Lit("-"), Num(m, 2), Lit("-"), Num(d, 2)>>
Sep3(a, sep, b, c) == <<a, Lit(sep), b, Lit(sep), c>>

ValueInputs ==
    {None, PyInt(10000), PyFloat(65000, 1), PyBool(TRUE), PyList,
     PyStr(<<"P", "6", ",", "5", "0", "0", ".", "0", "0">>),
     PyStr(<<"1", "0", "0", "0", "0">>),
     PyStr(<<"1", ".", "2", ".", "3">>)}
    \cup {PyStr(s) : s \in SeqsUpTo(ValueChars, MaxLen)}

DateInputs ==
    {None, PyInt(2007), PyList, PyStr(<<>>), PyStr(<<WS>>),
     PyStr(IsoDate(2007, 5, 20)),
     PyStr(<<WS>> \o IsoDate(2007, 5, 20) \o <<WS>>),
     PyStr(IsoDate(0, 1, 1)),
     PyStr(Sep3(Num(20, 2), "/", Num(5, 2), Num(2007, 4))),
     PyStr(Sep3(Num(3, 2), "/", Num(4, 2), Num(2007, 4))),
     PyStr(Sep3(Num(3, 2), "-", Num(4, 2), Num(2007, 4))),
     PyStr(Sep3(Num(20, 2), "-", Num(5, 2), Num(2007, 4))),
     PyStr(Sep3(Num(5, 2), "-", Num(20, 2), Num(2007, 4))),
     PyStr(Sep3(Num(2007, 4), "/", Num(5, 1), Num(20, 2))),
     PyStr(Sep3(Num(2007, 4), ".", Num(5, 2), Num(20, 2))),
     PyStr(Sep3(Num(20, 2), ".", Num(5, 2), Num(2007, 4))),
     PyStr(Sep3(Num(31, 2), ".", Num(11, 2), Num(2009, 4))),
     PyStr(Sep3(Num(29, 2), ".", Num(2, 2), Num(2008, 4))),
     PyStr(Sep3(Num(29, 2), ".", Num(2, 2), Num(2007, 4))),
     PyStr(Sep3(Num(20, 2), ".", Num(5, 2), Num(7, 2))),
     PyStr(Sep3(Num(5, 2), "/", Num(20, 2), Num(99, 2))),
     PyStr(<<Mon(5, 3), WS, Num(2007, 4)>>),
     PyStr(<<Mon(5, 3), WS, Num(20, 2), Lit(","), WS, Num(2007, 4)>>),
     PyStr(<<Mon(1, 2), WS, Num(1, 1), Lit(","), WS, Num(2024, 4)>>),
     PyStr(<<Num(20, 2), WS, Mon(3, 1), WS, Num(2007, 4)>>),
     PyStr(<<Num(31, 2), WS, Mon(12, 2), WS, Num(2024, 4)>>),
     PyStr(<<[k |-> "word", v |-> 0, w |-> 0]>>)}

RenewalInputs ==
    {None, PyInt(30), PyFloat(305, 1), PyBool(TRUE), PyList, PyDict(<<>>),
     PyStr(<<"6", "0", " ", "d", "a", "y", "s">>),
     PyStr(<<"t", "w", "o", " ", "m", "o", "n", "t", "h", "s">>),
     PyStr(<<"-", "6">>)}
    \cup {PyStr(s) : s \in SeqsUpTo(RenewalChars, MaxLen)}

PartyInputs == {None, PyStr(<<>>), PyStr(<<"A", "c", "m", "e">>), PyStr(<<"J", "a", "n", "e">>)}

FieldInputs(key) ==
    CASE key = "agreement_value" -> ValueInputs
      [] key \in {"agreement_start_date", "agreement_end_date"} -> DateInputs
      [] key = "renewal_notice_days" -> RenewalInputs
      [] OTHER -> PartyInputs

\* The answer of the end-to-end scenario, with one key the service ignores.
TypicalObject ==
    [key \in SixKeys \cup {"comment"} |->
       CASE key = "agreement_value" -> PyInt(500)
         [] key = "agreement_start_date" -> PyStr(IsoDate(2024, 1, 1))
         [] key = "agreement_end_date" -> PyStr(IsoDate(2024, 12, 31))
         [] key = "renewal_notice_days" -> PyInt(30)
         [] key = "party_one" -> PyStr(<<"A", "c", "m", "e">>)
         [] key = "party_two" -> PyStr(<<"J", "a", "n", "e">>)
         [] OTHER -> PyStr(<<"x">>)]

\* The objects of the model: one key ranges over all its inputs (or is
\* omitted) while the other keys are all typical or all omitted.
ObjectWith(dom, key, val) ==
    [k \in dom \cup {key} |-> IF k = key THEN val ELSE TypicalObject[k]]
ObjectWithout(dom, key) == [k \in dom \ {key} |-> TypicalObject[k]]
RawDatas ==
    UNION {{ObjectWith(dom, key, val) : val \in FieldInputs(key)} \cup {ObjectWithout(dom, key)} :
           key \in SixKeys, dom \in {SixKeys \cup {"comment"}, SixKeys, {}}}

\* Responses that wrap the object the way LLMs do.
ResponseShapes ==
    {<<"{", "P", "}">>,
     <<"fence_json", " ", "{", "P", "}", " ", "fence">>,
     <<"fence", " ", "{", "P", "}", " ", "fence">>,
     <<"x", " ", "{", " ", "P", " ", "}", " ", "x">>}

LlmTexts == SeqsUpTo(TextTokens, MaxTextLen) \cup ResponseShapes

(***************************************************************************)
(* The tail of extract_contract_details_from_text (lines 192-214), one     *)
(* action per call it makes.                                               *)
(***************************************************************************)
NormIdle ==
    /\ llm_text = <<>>
    /\ llm_object = <<>>
    /\ norm_pc = "idle"
    /\ raw_extracted = None
    /\ processed_data = None
    /\ extract_result = None

NormCalled ==
    /\ llm_text \in LlmTexts
    /\ llm_object \in (IF llm_text \in ResponseShapes THEN RawDatas ELSE {TypicalObject})
    /\ norm_pc = "parse"
    /\ raw_extracted = None
    /\ processed_data = None
    /\ extract_result = None

\* Lines 192-203: the empty-response test, robust_json_parser, the test of
\* its result.
ParseResponse ==
    /\ norm_pc = "parse"
    /\ IF ~Truthy(PyStr(llm_text))
       THEN /\ raw_extracted' = None
            /\ extract_result' = None
            /\ norm_pc' = "done"
       ELSE LET parsed == robust_json_parser(llm_text, llm_object)
            IN  /\ raw_extracted' = parsed
                /\ IF IsRaise(parsed)
                   THEN extract_result' = parsed /\ norm_pc' = "done"
                   ELSE IF ~Truthy(parsed)
                   THEN extract_result' = None /\ norm_pc' = "done"
                   ELSE extract_result' = extract_result /\ norm_pc' = "process"
    /\ UNCHANGED <<llm_text, llm_object, processed_data>>
    /\ UNCHANGED otherThanNorm

\* Line 209: processed_data = process_extracted_data(raw_extracted_data_dict)
ProcessFields ==
    /\ norm_pc = "process"
    /\ LET processed == process_extracted_data(raw_extracted.d)
       IN  /\ processed_data' = processed
           /\ IF IsRaise(processed)
              THEN extract_result' = processed /\ norm_pc' = "done"
              ELSE extract_result' = extract_result /\ norm_pc' = "assemble"
    /\ UNCHANGED <<llm_text, llm_object, raw_extracted>>
    /\ UNCHANGED otherThanNorm

\* Lines 211-214: final_data and the return.
AssembleFinal ==
    /\ norm_pc = "assemble"
    /\ extract_result' = final_data_of(processed_data.d)
    /\ norm_pc' = "done"
    /\ UNCHANGED <<llm_text, llm_object, raw_extracted, processed_data>>
    /\ UNCHANGED otherThanNorm

NextNorm == ParseResponse \/ ProcessFields \/ AssembleFinal

(***************************************************************************)
(* llm_services.get_gemini_generation.  One action per provider call and   *)
(* per delay; the outcome of a provider call is chosen by the environment. *)
(***************************************************************************)
generation_retries == 3

\* The classes of google.api_core exceptions the except clause of line 130
\* names, and one class it does not name.
TransientErrors ==
    {"ResourceExhausted", "ServiceUnavailable", "DeadlineExceeded", "InternalServerError"}
OtherErrors == {"InvalidArgument"}

FinishReasons == {"NONE", "FINISH_REASON_UNSPECIFIED", "STOP", "MAX_TOKENS", "SAFETY"}
GenTexts == {<<>>, <<"{", "P", "}">>}

NoOutcome ==
    [kind |-> "none", error |-> "", candidates |-> FALSE, parts |-> FALSE,
     finish_reason |-> "NONE", block_reason |-> FALSE, text |-> <<>>, broken |-> FALSE]

\* What model.generate_content can do: return a response (with or without
\* candidates, content parts, a finish reason, a block reason; broken is a
\* response whose attributes raise when read), or raise.
GenResponses ==
    [kind : {"response"}, error : {""}, candidates : BOOLEAN, parts : BOOLEAN,
     finish_reason : FinishReasons, block_reason : BOOLEAN, text : GenTexts,
     broken : BOOLEAN]
GenErrors ==
    {[NoOutcome EXCEPT !.kind = "error", !.error = e] : e \in TransientErrors \cup OtherErrors}
GenOutcomes == GenResponses \cup GenErrors

\* Lines 109-128: the value returned for a response that arrived.
\* A response with no parts but with candidates, read as if it had text.
response_value_ignoring_parts(response) ==
    IF response.broken THEN Raise("Exception")
    ELSE IF response.candidates THEN PyStr(response.text)
    ELSE None

response_value(response) ==
    IF response.broken THEN Raise("Exception")
    ELSE IF response.candidates
    THEN IF response.parts THEN PyStr(response.text)
         ELSE IF response.finish_reason \notin {"NONE", "FINISH_REASON_UNSPECIFIED", "STOP"}
         THEN None
         ELSE None
    ELSE IF response.block_reason THEN None
    ELSE None

\* Lines 130-135: after a transient error, return (the last attempt) or
\* sleep and go round the loop again.
\* The same without the test of line 132.
after_transient_error_always_retry(attempt) == "sleep"

after_transient_error(attempt) ==
    IF attempt = generation_retries - 1 THEN "done" ELSE "sleep"

GenIdle ==
    /\ gen_pc = "idle"
    /\ gen_prompt = <<>>
    /\ gen_attempt = 0
    /\ gen_calls = 0
    /\ gen_sleeps = 0
    /\ gen_response = NoOutcome
    /\ gen_result = None

\* Lines 79-87: the tests made before the loop.
GenEnter ==
    /\ gen_pc = "enter"
    /\ IF gen_prompt = <<>> \/ ~GEMINI_API_KEY
       THEN gen_pc' = "done"
       ELSE gen_pc' = "call"
    /\ UNCHANGED <<gen_prompt, gen_attempt, gen_calls, gen_sleeps, gen_response, gen_result>>
    /\ UNCHANGED otherThanGen

\* Lines 90-139: one pass of the loop body, with its except clauses.
GenProviderCall ==
    /\ gen_pc = "call"
    /\ \E outcome \in GenOutcomes :
         /\ gen_response' = outcome
         /\ gen_calls' = gen_calls + 1
         /\ IF outcome.kind = "error" /\ outcome.error \in TransientErrors
            THEN /\ gen_pc' = after_transient_error(gen_attempt)
                 /\ gen_result' = None
            ELSE IF outcome.kind = "error"
            THEN /\ gen_pc' = "done"
                 /\ gen_result' = None
            ELSE /\ gen_pc' = "done"
                 /\ gen_result' = TryExcept(response_value(outcome), AnyException, None)
    /\ UNCHANGED <<gen_prompt, gen_attempt, gen_sleeps>>
    /\ UNCHANGED otherThanGen

\* Line 135, time.sleep(delay), and the next round of "for attempt in
\* range(retries)"; lines 141-142 when the range is exhausted.
GenSleep ==
    /\ gen_pc = "sleep"
    /\ gen_sleeps' = gen_sleeps + 1
    /\ gen_attempt' = gen_attempt + 1
    /\ gen_pc' = IF gen_attempt + 1 < generation_retries THEN "call" ELSE "done"
    /\ UNCHANGED <<gen_prompt, gen_calls, gen_response, gen_result>>
    /\ UNCHANGED otherThanGen

NextGen == GenEnter \/ GenProviderCall \/ GenSleep

\* config.py lines 36, 72, 73: the values the settings can resolve to.
ConfigIdle ==
    /\ GEMINI_API_KEY = TRUE
    /\ TOP_K_RETRIEVAL = 3
    /\ EMBEDDING_BATCH_SIZE = 50
    /\ CHROMA_DB_PATH = "dir"

\* The process once lifespan has yielded: requests are served.
AppServing ==
    /\ app_phase = "serving"
    /\ config_error = None
    /\ db_manager_instance = TRUE

GenCalled ==
    /\ gen_pc = "enter"
    /\ gen_prompt \in {<<>>, <<"p">>}
    /\ gen_attempt = 0
    /\ gen_calls = 0
    /\ gen_sleeps = 0
    /\ gen_response = NoOutcome
    /\ gen_result = None

(***************************************************************************)
(* llm_services.get_gemini_embeddings_batch.  One action per provider call *)
(* and per delay.  The vector the provider computes for a text is          *)
(* Vec(text); a provider that answers with too many vectors adds a vector  *)
(* that belongs to none of the texts.                                      *)
(***************************************************************************)
retries == 3

Vec(text) == [t |-> "vec", of |-> text]
StrayVec == Vec("?")

\* [None] * n
Nones(n) == [i \in 1..n |-> None]

\* texts[i:i + config.EMBEDDING_BATCH_SIZE], for a positive batch size
batch_texts_segment(texts, i, size) ==
    SubSeq(texts, i + 1, IF i + size < Len(texts) THEN i + size ELSE Len(texts))

\* What genai.embed_content can answer for a chunk: the vectors of the
\* chunk ("ok"), one vector too few ("short") or too many ("long"), a result
\* of another shape ("malformed"), or an exception.
EmbedAnswers == {"ok", "short", "long", "malformed"}
EmbedOutcomes ==
    [kind : EmbedAnswers, error : {""}]
    \cup [kind : {"error"}, error : TransientErrors \cup OtherErrors]

\* result['embedding'] of an answer for the chunk segment
embedding_of(kind, segment) ==
    LET vectors == [j \in 1..Len(segment) |-> Vec(segment[j])]
    IN  CASE kind = "ok" -> vectors
          [] kind = "short" -> SubSeq(vectors, 1, Len(vectors) - 1)
          [] kind = "long" -> Append(vectors, StrayVec)
          [] OTHER -> <<>>

\* Lines 46-54: what one answer adds to the list of this attempt.  The
\* number of vectors in the answer is not compared with the size of the chunk.
segment_embeddings(kind, segment) ==
    LET got == embedding_of(kind, segment)
    IN  IF kind # "malformed" /\ got # <<>> THEN got ELSE Nones(Len(segment))

\* Lines 64-69: after a transient error, return (the last attempt) or sleep.
\* The same, retrying without a limit on the attempts.
embed_after_transient_error_always_retry(attempt) == "sleep"

embed_after_transient_error(attempt) ==
    IF attempt = retries - 1 THEN "done" ELSE "sleep"

EmbIdle ==
    /\ emb_pc = "idle"
    /\ emb_texts = <<>>
    /\ emb_attempt = 0
    /\ emb_i = 0
    /\ emb_current = <<>>
    /\ emb_calls = 0
    /\ emb_sleeps = 0
    /\ emb_last = "none"
    /\ emb_result = <<>>

\* Lines 56-62: the end of an attempt that made all its provider calls.
EmbFinishAttempt(attempt, current) ==
    IF Len(current) = Len(emb_texts)
    THEN emb_pc' = "done" /\ emb_result' = current
    ELSE IF attempt = retries - 1
    THEN emb_pc' = "done" /\ emb_result' = Nones(Len(emb_texts))
    ELSE emb_pc' = "sleep" /\ emb_result' = emb_result

\* Lines 33-36: the start of an attempt.  range() with a zero step raises
\* ValueError, which the except clause of line 70 turns into all nulls; with
\* a negative step the range is empty.
EmbStartAttempt(attempt) ==
    /\ emb_attempt' = attempt
    /\ emb_i' = 0
    /\ emb_current' = <<>>
    /\ IF EMBEDDING_BATCH_SIZE = 0
       THEN emb_pc' = "done" /\ emb_result' = Nones(Len(emb_texts))
       ELSE IF EMBEDDING_BATCH_SIZE < 0
       THEN EmbFinishAttempt(attempt, <<>>)
       ELSE emb_pc' = "call" /\ emb_result' = emb_result

\* Lines 25-31, and the start of the first attempt.
EmbedEnter ==
    /\ emb_pc = "enter"
    /\ IF emb_texts = <<>>
       THEN /\ emb_pc' = "done"
            /\ emb_result' = <<>>
            /\ UNCHANGED <<emb_attempt, emb_i, emb_current>>
       ELSE IF ~GEMINI_API_KEY
       THEN /\ emb_pc' = "done"
            /\ emb_result' = Nones(Len(emb_texts))
            /\ UNCHANGED <<emb_attempt, emb_i, emb_current>>
       ELSE EmbStartAttempt(0)
    /\ UNCHANGED <<emb_texts, emb_calls, emb_sleeps, emb_last>>
    /\ UNCHANGED otherThanEmb

\* Lines 37-72: one provider call for the chunk at emb_i, and what follows
\* it: the next chunk, the end of the attempt, or an except clause.
EmbedProviderCall ==
    /\ emb_pc = "call"
    /\ \E outcome \in EmbedOutcomes :
         LET segment == batch_texts_segment(emb_texts, emb_i, EMBEDDING_BATCH_SIZE)
             current == emb_current \o segment_embeddings(outcome.kind, segment)
         IN  /\ emb_calls' = emb_calls + 1
             /\ emb_last' = IF outcome.kind = "error" THEN outcome.error ELSE outcome.kind
             /\ IF outcome.kind = "error" /\ outcome.error \in TransientErrors
                THEN /\ emb_pc' = embed_after_transient_error(emb_attempt)
                     /\ emb_result' = IF emb_pc' = "done" THEN Nones(Len(emb_texts))
                                      ELSE emb_result
                     /\ UNCHANGED <<emb_i, emb_current>>
                ELSE IF outcome.kind = "error"
                THEN /\ emb_pc' = "done"
                     /\ emb_result' = Nones(Len(emb_texts))
                     /\ UNCHANGED <<emb_i, emb_current>>
                ELSE /\ emb_current' = current
                     /\ emb_i' = emb_i + EMBEDDING_BATCH_SIZE
                     /\ IF emb_i + EMBEDDING_BATCH_SIZE < Len(emb_texts)
                        THEN emb_pc' = "call" /\ emb_result' = emb_result
                        ELSE EmbFinishAttempt(emb_attempt, current)
    /\ UNCHANGED <<emb_texts, emb_attempt, emb_sleeps>>
    /\ UNCHANGED otherThanEmb

\* Lines 62 and 69, time.sleep(delay), and the next round of "for attempt in
\* range(retries)"; lines 74-75 when the range is exhausted.
EmbedSleep ==
    /\ emb_pc = "sleep"
    /\ emb_sleeps' = emb_sleeps + 1
    /\ IF emb_attempt + 1 < retries
       THEN EmbStartAttempt(emb_attempt + 1)
       ELSE /\ emb_pc' = "done"
            /\ emb_result' = Nones(Len(emb_texts))
            /\ UNCHANGED <<emb_attempt, emb_i, emb_current>>
    /\ UNCHANGED <<emb_texts, emb_calls, emb_last>>
    /\ UNCHANGED otherThanEmb

NextEmbed == EmbedEnter \/ EmbedProviderCall \/ EmbedSleep

\* The texts of a direct call: n distinct texts.
TextsOf(n) == [i \in 1..n |-> ToString(i)]

EmbCalled ==
    /\ emb_pc = "enter"
    /\ emb_texts \in {TextsOf(n) : n \in 0..MaxTexts}
    /\ emb_attempt = 0
    /\ emb_i = 0
    /\ emb_current = <<>>
    /\ emb_calls = 0
    /\ emb_sleeps = 0
    /\ emb_last = "none"
    /\ emb_result = <<>>

\* get_gemini_embeddings_batch has returned to its caller: what it held
\* is gone.
EmbReturned ==
    /\ emb_pc' = "idle"
    /\ emb_texts' = <<>>
    /\ emb_attempt' = 0
    /\ emb_i' = 0
    /\ emb_current' = <<>>
    /\ emb_calls' = 0
    /\ emb_sleeps' = 0
    /\ emb_last' = "none"
    /\ emb_result' = <<>>

(***************************************************************************)
(* vector_db_manager.VectorDBManager.populate_from_xlsx.  PopulateBegin is *)
(* the call up to the point where it asks for the embeddings, the actions  *)
(* of get_gemini_embeddings_batch run the embedding call, PopulateFinish   *)
(* is the rest of the call.                                                *)
(***************************************************************************)
\* A cell of the DataFrame: NaN for a blank cell, or a string.
NaN == [t |-> "nan"]
Cell(s) == [t |-> "str", s |-> s]

\* str(row['Text']): str(float('nan')) is the string "nan"
py_str(cell) == IF cell.t = "nan" THEN "nan" ELSE cell.s

\* pd.isna of a str is False, whatever its characters
pd_isna_of_str(text) == FALSE

\* Line 100, on the string of line 97.
row_skipped(cell) ==
    LET text_content == py_str(cell)
    IN  text_content = "" \/ pd_isna_of_str(text_content)

\* Lines 96-108: the indexes of the rows that are kept, in order.
accepted_rows(rows) ==
    SelectSeq([i \in 1..Len(rows) |-> i - 1],
              LAMBDA index : ~row_skipped(rows[index + 1].Text))

\* Line 108
doc_id(index, file_name) == <<"doc", index, py_str(file_name)>>

\* Line 75: the test that skips the population.
\* The same, never skipping.
skip_population_never(count, force_repopulate) == FALSE

skip_population(count, force_repopulate) == count > 0 /\ ~force_repopulate

\* Lines 123-130: the positions whose embedding is truthy.
\* The same, keeping every position.
valid_positions_all(embeddings_list) == 1..Len(embeddings_list)

valid_positions(embeddings_list) ==
    {j \in 1..Len(embeddings_list) : embeddings_list[j] # None}

\* Lines 138-143: the records one collection.add stores.
added_records(rows, ids, texts, embeddings_list) ==
    {[id |-> doc_id(ids[j], rows[ids[j] + 1].File_Name),
      document |-> texts[j],
      embedding |-> embeddings_list[j],
      original_xlsx_index |-> ids[j]] : j \in valid_positions(embeddings_list)}

\* What is at xlsx_path: no file, a file read_excel fails on, a sheet
\* without the two columns, or a sheet of rows.
TextCells == {NaN, Cell("a")}
Rows == [Text : TextCells, File_Name : {Cell("f")}]
Sources ==
    {[kind |-> k, rows |-> <<>>] : k \in {"missing", "unreadable", "no_columns"}}
    \cup {[kind |-> "rows", rows |-> r] : r \in SeqsUpTo(Rows, MaxRows)}

\* A record stored by an earlier run of the service.
OldRecord ==
    [id |-> <<"doc", 0, "old">>, document |-> "a", embedding |-> Vec("a"),
     original_xlsx_index |-> 0]

PopIdle ==
    /\ collection = {}
    /\ xlsx = [kind |-> "missing", rows |-> <<>>]
    /\ pop_pc = "idle"
    /\ pop_force = FALSE
    /\ pop_calls = 0
    /\ pop_outcome = "none"
    /\ pop_ids = <<>>
    /\ pop_reads = 0
    /\ pop_writes = 0
    /\ pop_deletes = 0
    /\ collection_missing = FALSE

\* The embedding call of line 116 is entered with texts.
EmbCall(texts) ==
    /\ emb_pc' = "enter"
    /\ emb_texts' = texts
    /\ emb_attempt' = 0
    /\ emb_i' = 0
    /\ emb_current' = <<>>
    /\ emb_calls' = 0
    /\ emb_sleeps' = 0
    /\ emb_last' = "none"
    /\ emb_result' = <<>>

\* Lines 66-73: what the two store calls of a forced call do.  "deleted" is
\* delete_collection and create_collection both succeeding, "delete_failed"
\* is delete_collection raising, "create_failed" is create_collection
\* raising once the collection is deleted.
ResetOutcomes == {"deleted", "delete_failed", "create_failed"}

\* Line 65: the store calls of lines 69-70 are made by a forced call only.
ResetsOf(force_repopulate) ==
    IF force_repopulate THEN ResetOutcomes ELSE {"deleted"}

\* Lines 66-73: the records of the store once the reset of a forced call
\* is over.
\* The same, with a reset that deletes nothing.
collection_after_reset_kept(records, force_repopulate, reset_outcome) == records

collection_after_reset(records, force_repopulate, reset_outcome) ==
    IF force_repopulate /\ reset_outcome # "delete_failed" THEN {} ELSE records

\* Lines 64-116.  Every return of these lines ends the call.  reset is what
\* the store does to lines 69-70 of a forced call; delete_collection raises
\* when there is no collection of the name, and so does count (line 75) on
\* the handle of a deleted collection.
PopulateStart(force_repopulate, reset) ==
    /\   LET reset_outcome ==
                 IF collection_missing THEN "delete_failed" ELSE reset
             after_reset ==
                 collection_after_reset(collection, force_repopulate, reset_outcome)
             count == Cardinality(after_reset)
             ids == accepted_rows(xlsx.rows)
             texts == [j \in 1..Len(ids) |-> py_str(xlsx.rows[ids[j] + 1].Text)]
             returns(outcome, reads) ==
                 /\ pop_outcome' = outcome
                 /\ pop_reads' = pop_reads + reads
                 /\ pop_pc' = "idle"
                 /\ UNCHANGED <<pop_ids, embVars>>
         IN  /\ pop_force' = force_repopulate
             /\ pop_calls' = pop_calls + 1
             /\ pop_deletes' = pop_deletes + (IF force_repopulate THEN 1 ELSE 0)
             /\ collection' = after_reset
             /\ collection_missing' =
                  IF force_repopulate /\ reset_outcome = "create_failed"
                  THEN TRUE
                  ELSE collection_missing
             /\ IF force_repopulate /\ reset_outcome = "delete_failed"
                THEN returns("delete_failed", 0)
                ELSE IF force_repopulate /\ reset_outcome = "create_failed"
                THEN returns("recreate_failed", 0)
                ELSE IF collection_missing
                THEN returns("raised", 0)
                ELSE IF skip_population(count, force_repopulate)
                THEN returns("skipped", 0)
                ELSE IF xlsx.kind = "missing"
                THEN returns("file_not_found", 1)
                ELSE IF xlsx.kind = "unreadable"
                THEN returns("read_error", 1)
                ELSE IF xlsx.kind = "no_columns"
                THEN returns("no_columns", 1)
                ELSE IF texts = <<>>
                THEN returns("no_texts", 1)
                ELSE /\ pop_outcome' = "running"
                     /\ pop_reads' = pop_reads + 1
                     /\ pop_pc' = "embed"
                     /\ pop_ids' = ids
                     /\ EmbCall(texts)
    /\ UNCHANGED <<xlsx, pop_writes>>

\* A call of populate_from_xlsx by a request the service serves
\* (main.py line 140).
PopulateBegin ==
    /\ app_phase = "serving"
    /\ db_manager_instance
    /\ pop_pc = "idle"
    /\ pop_calls < MaxPopulateCalls
    /\ \E force_repopulate \in BOOLEAN :
         \E reset \in ResetsOf(force_repopulate) :
            PopulateStart(force_repopulate, reset)
    /\ UNCHANGED otherThanPop

\* Lines 136-147: the records of the store after collection.add; a call
\* that raises has stored nothing.
\* The same, with a failed call that has stored its batch.
collection_after_add_partial(records, batch, add_ok) == records \cup batch

collection_after_add(records, batch, add_ok) ==
    IF add_ok THEN records \cup batch ELSE records

\* Lines 118-147, once get_gemini_embeddings_batch has returned.
PopulateFinish ==
    /\ pop_pc = "embed"
    /\ emb_pc = "done"
    /\ pop_pc' = "idle"
    /\ IF valid_positions(emb_result) = {}
       THEN /\ pop_outcome' = "no_embeddings"
            /\ UNCHANGED <<collection, pop_writes>>
       ELSE \E add_ok \in BOOLEAN :
            /\ pop_writes' = pop_writes + 1
            /\ pop_outcome' = IF add_ok THEN "added" ELSE "add_failed"
            /\ collection' =
                 collection_after_add(
                     collection,
                     added_records(xlsx.rows, pop_ids, emb_texts, emb_result),
                     add_ok)
    /\ UNCHANGED <<xlsx, pop_force, pop_calls, pop_ids, pop_reads, pop_deletes,
                   collection_missing>>
    /\ EmbReturned
    /\ UNCHANGED otherThanPop

NextPopulate ==
    PopulateBegin \/ EmbedEnter \/ EmbedProviderCall \/ EmbedSleep \/ PopulateFinish

\* A constructed manager over an empty or an already populated collection.
PopCalled ==
    /\ collection \in {{}, {OldRecord}}
    /\ xlsx \in Sources
    /\ pop_pc = "idle"
    /\ pop_force = FALSE
    /\ pop_calls = 0
    /\ pop_outcome = "none"
    /\ pop_ids = <<>>
    /\ pop_reads = 0
    /\ pop_writes = 0
    /\ pop_deletes = 0
    /\ collection_missing = FALSE

(***************************************************************************)
(* The start of the process: config.py is imported (lines 76-99), then     *)
(* main.lifespan builds the VectorDBManager and fills an empty collection  *)
(* from the spreadsheet, then requests are served.                         *)
(***************************************************************************)
\* config.validate_config, lines 76-87: the first check that fails raises.
validate_config ==
    IF ~GEMINI_API_KEY THEN Raise("ValueError")
    ELSE IF CHROMA_DB_PATH = "project_root" THEN Raise("ValueError")
    ELSE IF TOP_K_RETRIEVAL <= 0 THEN Raise("ValueError")
    ELSE IF EMBEDDING_BATCH_SIZE <= 0 \/ EMBEDDING_BATCH_SIZE > 100 THEN Raise("ValueError")
    ELSE None

\* config.py lines 89-99: the ValueError is printed, SystemExit is commented
\* out, and the import goes on.
ImportConfig ==
    /\ app_phase = "import"
    /\ config_error' = validate_config
    /\ app_phase' = IF IsRaise(TryExcept(validate_config, {"ValueError"}, None))
                    THEN "failed"
                    ELSE "lifespan"
    /\ UNCHANGED db_manager_instance
    /\ UNCHANGED <<popVars, embVars>>
    /\ UNCHANGED otherThanApp

\* main.lifespan lines 56-77.  VectorDBManager.__init__ raises when the
\* path is a file (vector_db_manager.py lines 38-48) and lifespan turns that
\* into RuntimeError; an empty collection is populated when the spreadsheet
\* exists.
LifespanStartup ==
    /\ app_phase = "lifespan"
    /\ IF CHROMA_DB_PATH = "file"
       THEN /\ app_phase' = "failed"
            /\ UNCHANGED db_manager_instance
            /\ UNCHANGED <<popVars, embVars>>
       ELSE /\ db_manager_instance' = TRUE
            /\ IF Cardinality(collection) = 0 /\ xlsx.kind # "missing"
               THEN /\ PopulateStart(FALSE, "deleted")
                    /\ app_phase' = IF pop_pc' = "embed" THEN "populating" ELSE "serving"
               ELSE /\ app_phase' = "serving"
                    /\ UNCHANGED <<popVars, embVars>>
    /\ UNCHANGED config_error
    /\ UNCHANGED otherThanApp

\* main.lifespan lines 78-89, once populate_from_xlsx has returned.
LifespanYield ==
    /\ app_phase = "populating"
    /\ pop_pc = "idle"
    /\ app_phase' = "serving"
    /\ UNCHANGED <<config_error, db_manager_instance>>
    /\ UNCHANGED <<popVars, embVars>>
    /\ UNCHANGED otherThanApp

NextStartup ==
    \/ ImportConfig
    \/ LifespanStartup
    \/ LifespanYield
    \/ PopulateBegin
    \/ EmbedEnter
    \/ EmbedProviderCall
    \/ EmbedSleep
    \/ PopulateFinish

\* The settings a deployment can hold, valid or not, and what is at the
\* database path.
Settings ==
    /\ GEMINI_API_KEY \in BOOLEAN
    /\ TOP_K_RETRIEVAL \in {0, 3}
    /\ EMBEDDING_BATCH_SIZE \in {0, 50, 101}
    /\ CHROMA_DB_PATH \in {"dir", "project_root", "file"}

AppStarted ==
    /\ app_phase = "import"
    /\ config_error = None
    /\ db_manager_instance = FALSE

\* The spreadsheet and the collection the process finds when it starts.
StartupStore ==
    /\ collection \in {{}, {OldRecord}}
    /\ xlsx \in {[kind |-> "missing", rows |-> <<>>],
                 [kind |-> "rows", rows |-> <<[Text |-> Cell("a"), File_Name |-> Cell("f")]>>]}
    /\ pop_pc = "idle"
    /\ pop_force = FALSE
    /\ pop_calls = 0
    /\ pop_outcome = "none"
    /\ pop_ids = <<>>
    /\ pop_reads = 0
    /\ pop_writes = 0
    /\ pop_deletes = 0
    /\ collection_missing = FALSE

(***************************************************************************)
(* vector_db_manager.VectorDBManager.query_documents.  QueryStart is the   *)
(* call up to the embedding of the query text, the actions of              *)
(* get_gemini_embeddings_batch run the embedding call, QueryReturn is the  *)
(* rest: the nearest-neighbour search of the store and the result list.    *)
(***************************************************************************)
NoAnswer == [kind |-> "none", hits |-> <<>>]

\* Records an earlier population stored.
SecondRecord ==
    [id |-> <<"doc", 1, "old">>, document |-> "b", embedding |-> Vec("b"),
     original_xlsx_index |-> 1]
ThirdRecord ==
    [id |-> <<"doc", 2, "old">>, document |-> "c", embedding |-> Vec("c"),
     original_xlsx_index |-> 2]

\* The sequences of m different records of the store, closest first.
Neighbours(records, m) ==
    {hits \in [1..m -> records] : \A i, j \in 1..m : i # j => hits[i] # hits[j]}

\* What collection.query(n_results = n_results) can do on the records: raise
\* (always, for n_results <= 0), answer with no ids, or answer with the
\* n_results nearest records, closest first; asked for more than it holds,
\* the store raises or answers with all it holds.
StoreAnswers(records, n_results) ==
    LET m == IF n_results < Cardinality(records) THEN n_results ELSE Cardinality(records)
    IN  {[kind |-> "error", hits |-> <<>>]}
        \cup (IF n_results <= 0 THEN {}
              ELSE {[kind |-> "empty", hits |-> <<>>]}
                   \cup {[kind |-> "hits", hits |-> h] : h \in Neighbours(records, m)})

\* Line 165: actual_k = min(k, num_items_in_collection)
\* The same without the clamp.
actual_k_unclamped(k, num_items_in_collection) == k

actual_k_of(k, num_items_in_collection) ==
    IF k < num_items_in_collection THEN k ELSE num_items_in_collection

\* Lines 176-192: the list built from the answer of the store; the distance
\* of the i-th hit is its rank.
retrieved_docs(answer) ==
    IF answer.kind = "hits" /\ answer.hits # <<>>
    THEN [i \in 1..Len(answer.hits) |->
            [id |-> answer.hits[i].id,
             text |-> answer.hits[i].document,
             file_name |-> answer.hits[i].id[3],
             distance |-> i]]
    ELSE <<>>

\* Line 152: the test for an empty collection.
\* The same, never true.
collection_is_empty_never(num_items_in_collection) == FALSE

collection_is_empty(num_items_in_collection) == num_items_in_collection = 0

QryIdle ==
    /\ qry_pc = "idle"
    /\ qry_text = ""
    /\ qry_k = 0
    /\ qry_n = 0
    /\ qry_embeds = 0
    /\ qry_requested = <<>>
    /\ qry_answer = NoAnswer
    /\ qry_result = <<>>

\* Lines 150-157.
QueryStart(query_text, k) ==
    /\ qry_text' = query_text
    /\ qry_k' = k
    /\ qry_n' = Cardinality(collection)
    /\ qry_requested' = <<>>
    /\ qry_answer' = NoAnswer
    /\ qry_result' = <<>>
    /\ IF collection_is_empty(Cardinality(collection))
       THEN /\ qry_pc' = "done"
            /\ qry_embeds' = 0
            /\ UNCHANGED embVars
       ELSE /\ qry_pc' = "embed"
            /\ qry_embeds' = 1
            /\ EmbCall(<<query_text>>)

\* Lines 159-192, once get_gemini_embeddings_batch has returned.
QueryReturn ==
    /\ qry_pc' = "done"
    /\ IF emb_result = <<>> \/ emb_result[1] = None
       THEN /\ qry_result' = <<>>
            /\ UNCHANGED <<qry_requested, qry_answer>>
       ELSE LET actual_k == actual_k_of(qry_k, qry_n)
            IN  \E answer \in StoreAnswers(collection, actual_k) :
                  /\ qry_requested' = Append(qry_requested, actual_k)
                  /\ qry_answer' = answer
                  /\ qry_result' = retrieved_docs(answer)
    /\ EmbReturned
    /\ UNCHANGED <<qry_text, qry_k, qry_n, qry_embeds>>

\* A call of query_documents on its own, for every k of QueryKs.
QueryKs == -1..MaxK

QueryBegin ==
    /\ qry_pc = "idle"
    /\ ext_pc = "idle"
    /\ \E k \in QueryKs : QueryStart("q", k)
    /\ UNCHANGED otherThanQry

QueryFinish ==
    /\ qry_pc = "embed"
    /\ emb_pc = "done"
    /\ ext_pc = "idle"
    /\ QueryReturn
    /\ UNCHANGED otherThanQry

NextQuery == QueryBegin \/ EmbedEnter \/ EmbedProviderCall \/ EmbedSleep \/ QueryFinish

\* The collections a query runs against, and an idle populate.
QueryStore ==
    /\ collection \in SUBSET {OldRecord, SecondRecord, ThirdRecord}
    /\ xlsx = [kind |-> "missing", rows |-> <<>>]
    /\ pop_pc = "idle"
    /\ pop_force = FALSE
    /\ pop_calls = 0
    /\ pop_outcome = "none"
    /\ pop_ids = <<>>
    /\ pop_reads = 0
    /\ pop_writes = 0
    /\ pop_deletes = 0
    /\ collection_missing = FALSE

(***************************************************************************)
(* data_processor.extract_contract_details_from_text, from its call to the *)
(* return of get_gemini_generation; the actions of the Output Normalizer   *)
(* (ParseResponse, ProcessFields, AssembleFinal) are the rest of it.       *)
(***************************************************************************)
\* A list of retrieved contexts.
ContextList(items) == [t |-> "list", items |-> items]

\* "if retrieved_contexts:" of line 84
\* The same as "if retrieved_contexts is not None:".
contexts_given_not_none(contexts) == contexts.t = "list"

contexts_given(contexts) == contexts.t = "list" /\ contexts.items # <<>>

\* "if not input_text:" of line 170
\* The same, never true.
input_missing_never(text) == FALSE

input_missing(text) == text = ""

\* "if use_rag:" of line 175
\* The same, always true.
rag_enabled_always(flag) == TRUE

rag_enabled(flag) == flag

\* build_extraction_prompt: the parts of the prompt, in order.
build_extraction_prompt(primary_text, contexts) ==
    <<[part |-> "instructions"], [part |-> "primary_text", text |-> primary_text]>>
    \o (IF contexts_given(contexts)
        THEN <<[part |-> "examples_header"]>>
             \o [i \in 1..Len(contexts.items) |->
                   [part |-> "example", number |-> i,
                    source_file |-> contexts.items[i].file_name,
                    distance |-> contexts.items[i].distance,
                    text |-> contexts.items[i].text]]
             \o <<[part |-> "examples_end"]>>
        ELSE <<>>)
    \o <<[part |-> "request"]>>

ExtIdle ==
    /\ ext_pc = "idle"
    /\ input_text = ""
    /\ use_rag = FALSE
    /\ retrieved_contexts = None
    /\ ext_queries = 0
    /\ ext_generations = 0
    /\ llm_response_text = None

\* get_gemini_generation is entered with prompt (line 190).
GenCall(prompt) ==
    /\ gen_pc' = "enter"
    /\ gen_prompt' = prompt
    /\ gen_attempt' = 0
    /\ gen_calls' = 0
    /\ gen_sleeps' = 0
    /\ gen_response' = NoOutcome
    /\ gen_result' = None

\* get_gemini_generation has returned to its caller.
GenReturned ==
    /\ gen_pc' = "idle"
    /\ gen_prompt' = <<>>
    /\ gen_attempt' = 0
    /\ gen_calls' = 0
    /\ gen_sleeps' = 0
    /\ gen_response' = NoOutcome
    /\ gen_result' = None

\* Lines 170-177 and, when no embedding of the query is pending, lines
\* 178-190 up to the call of get_gemini_generation.
ExtractBegin ==
    /\ ext_pc = "enter"
    /\ IF input_missing(input_text)
       THEN /\ ext_pc' = "done"
            /\ extract_result' = None
            /\ UNCHANGED <<retrieved_contexts, ext_queries, ext_generations>>
            /\ UNCHANGED <<qryVars, embVars, genVars>>
       ELSE IF rag_enabled(use_rag)
       THEN /\ QueryStart(input_text, TOP_K_RETRIEVAL)
            /\ ext_queries' = ext_queries + 1
            /\ UNCHANGED extract_result
            /\ IF qry_pc' = "done"
               THEN /\ retrieved_contexts' = ContextList(qry_result')
                    /\ GenCall(build_extraction_prompt(input_text, retrieved_contexts'))
                    /\ ext_generations' = ext_generations + 1
                    /\ ext_pc' = "generate"
               ELSE /\ ext_pc' = "query"
                    /\ UNCHANGED <<retrieved_contexts, ext_generations, genVars>>
       ELSE /\ retrieved_contexts' = None
            /\ GenCall(build_extraction_prompt(input_text, None))
            /\ ext_generations' = ext_generations + 1
            /\ ext_pc' = "generate"
            /\ UNCHANGED <<extract_result, ext_queries>>
            /\ UNCHANGED <<qryVars, embVars>>
    /\ UNCHANGED <<input_text, use_rag, llm_response_text>>
    /\ UNCHANGED <<llm_text, llm_object, norm_pc, raw_extracted, processed_data>>
    /\ UNCHANGED otherThanExt

\* The return of query_documents (line 177), and lines 178-190 up to the
\* call of get_gemini_generation.
ExtractRetrieved ==
    /\ ext_pc = "query"
    /\ qry_pc = "embed"
    /\ emb_pc = "done"
    /\ QueryReturn
    /\ retrieved_contexts' = ContextList(qry_result')
    /\ GenCall(build_extraction_prompt(input_text, retrieved_contexts'))
    /\ ext_generations' = ext_generations + 1
    /\ ext_pc' = "generate"
    /\ UNCHANGED <<input_text, use_rag, ext_queries, llm_response_text>>
    /\ UNCHANGED normVars
    /\ UNCHANGED otherThanExt

\* Line 190: llm_response_text = get_gemini_generation(prompt)
ExtractGenerated ==
    /\ ext_pc = "generate"
    /\ gen_pc = "done"
    /\ llm_response_text' = gen_result
    /\ llm_text' = IF gen_result.t = "str" THEN gen_result.s ELSE <<>>
    /\ norm_pc' = "parse"
    /\ ext_pc' = "normalize"
    /\ GenReturned
    /\ UNCHANGED <<input_text, use_rag, retrieved_contexts, ext_queries, ext_generations>>
    /\ UNCHANGED <<llm_object, raw_extracted, processed_data, extract_result>>
    /\ UNCHANGED <<qryVars, embVars>>
    /\ UNCHANGED otherThanExt

NextExtract ==
    \/ ExtractBegin
    \/ EmbedEnter
    \/ EmbedProviderCall
    \/ EmbedSleep
    \/ ExtractRetrieved
    \/ GenEnter
    \/ GenProviderCall
    \/ GenSleep
    \/ ExtractGenerated
    \/ ParseResponse
    \/ ProcessFields
    \/ AssembleFinal

\* The JSON objects the response of the model can denote in a call of
\* extract: all keys, no key at all, one expected key, no expected key.
ExtractObjects ==
    {TypicalObject, ObjectWithout({}, "party_one"),
     ObjectWith({}, "agreement_value", PyInt(500)),
     ObjectWithout({"comment", "party_one"}, "party_one")}

ExtCalled ==
    /\ ext_pc = "enter"
    /\ input_text \in {"", "contract"}
    /\ use_rag \in BOOLEAN
    /\ retrieved_contexts = None
    /\ ext_queries = 0
    /\ ext_generations = 0
    /\ llm_response_text = None
    /\ llm_text = <<>>
    /\ llm_object \in ExtractObjects
    /\ norm_pc = "idle"
    /\ raw_extracted = None
    /\ processed_data = None
    /\ extract_result = None

(***************************************************************************)
(* main.populate_database_endpoint.  EndpointRequest is the handler up to  *)
(* the point where populate_from_xlsx asks for the embeddings, or up to    *)
(* its response when populate_from_xlsx is not called or ends before that; *)
(* EndpointRespond is the rest of the handler once populate_from_xlsx has  *)
(* returned.                                                               *)
(***************************************************************************)
EpIdle ==
    /\ ep_pc = "idle"
    /\ ep_status = 0
    /\ ep_item_count = 0

\* Line 129: os.path.exists(effective_xlsx_path).
path_exists(source) == source.kind # "missing"

\* vector_db_manager.py lines 194-199: the count, 0 when count raises.
get_collection_count(records, missing) ==
    IF missing THEN 0 ELSE Cardinality(records)

\* Lines 136-157: the response once populate_from_xlsx has ended; raised
\* tells whether it ended by an exception.
populate_status(raised, outcome) == IF raised THEN 500 ELSE 200

\* Lines 150-157 and 144-149.
EndpointResponse(outcome, records, missing) ==
    /\ ep_status' = populate_status(outcome = "raised", outcome)
    /\ ep_item_count' =
         IF ep_status' = 200 THEN get_collection_count(records, missing) ELSE 0

\* Lines 117-143.
EndpointRequest ==
    /\ app_phase = "serving"
    /\ db_manager_instance
    /\ ep_pc = "idle"
    /\ pop_pc = "idle"
    /\ pop_calls < MaxPopulateCalls
    /\ IF ~path_exists(xlsx)
       THEN /\ ep_status' = 404
            /\ ep_item_count' = 0
            /\ ep_pc' = "idle"
            /\ UNCHANGED <<popVars, embVars>>
       ELSE \E force_repopulate \in BOOLEAN, reset \in ResetOutcomes :
              /\ reset \in ResetsOf(force_repopulate)
              /\ PopulateStart(force_repopulate, reset)
              /\ IF pop_pc' = "embed"
                 THEN /\ ep_pc' = "populate"
                      /\ UNCHANGED <<ep_status, ep_item_count>>
                 ELSE /\ ep_pc' = "idle"
                      /\ EndpointResponse(pop_outcome', collection', collection_missing')
    /\ UNCHANGED otherThanEp

\* Lines 144-149, once populate_from_xlsx has returned.
EndpointRespond ==
    /\ ep_pc = "populate"
    /\ pop_pc = "idle"
    /\ ep_pc' = "idle"
    /\ EndpointResponse(pop_outcome, collection, collection_missing)
    /\ UNCHANGED <<popVars, embVars>>
    /\ UNCHANGED otherThanEp

NextEndpoint ==
    \/ EndpointRequest
    \/ EmbedEnter
    \/ EmbedProviderCall
    \/ EmbedSleep
    \/ PopulateFinish
    \/ EndpointRespond

(***************************************************************************)
(* Calls of populate_from_xlsx without force that run at the same time on  *)
(* one collection and one sheet: requests served by several workers, or    *)
(* calls run off the request thread.  A caller takes three steps, lines    *)
(* 64-116 up to the embedding call, the embedding call, lines 118-147; the *)
(* steps of different callers interleave.                                  *)
(***************************************************************************)
Callers == 1..MaxCallers

ConcIdle ==
    /\ conc_pc = [c \in Callers |-> "idle"]
    /\ conc_ids = [c \in Callers |-> <<>>]
    /\ conc_emb = [c \in Callers |-> <<>>]
    /\ add_attempts = <<>>
    /\ readded = {}

\* texts_to_embed of the accepted rows ids.
texts_of(ids) == [j \in 1..Len(ids) |-> py_str(xlsx.rows[ids[j] + 1].Text)]

\* The lists get_gemini_embeddings_batch returns for texts that fit in one
\* chunk: the vector of every text, or all nulls.
EmbeddingResults(texts) ==
    {[j \in 1..Len(texts) |-> Vec(texts[j])], Nones(Len(texts))}

\* Lines 64-116 without force, by caller c.
ConcStart(c) ==
    /\ conc_pc[c] = "idle"
    /\ LET ids == accepted_rows(xlsx.rows)
       IN  IF \/ skip_population(Cardinality(collection), FALSE)
              \/ xlsx.kind # "rows"
              \/ ids = <<>>
           THEN /\ conc_pc' = [conc_pc EXCEPT ![c] = "done"]
                /\ UNCHANGED conc_ids
           ELSE /\ conc_pc' = [conc_pc EXCEPT ![c] = "embed"]
                /\ conc_ids' = [conc_ids EXCEPT ![c] = ids]
    /\ UNCHANGED <<conc_emb, add_attempts, readded, collection>>
    /\ UNCHANGED otherThanConc

\* Line 116, by caller c.
ConcEmbed(c) ==
    /\ conc_pc[c] = "embed"
    /\ \E embeddings_list \in EmbeddingResults(texts_of(conc_ids[c])) :
         conc_emb' = [conc_emb EXCEPT ![c] = embeddings_list]
    /\ conc_pc' = [conc_pc EXCEPT ![c] = "add"]
    /\ UNCHANGED <<conc_ids, add_attempts, readded, collection>>
    /\ UNCHANGED otherThanConc

\* Lines 118-147, by caller c.  An add of ids the store holds raises or
\* leaves the held records as they are, by the version of the store.
ConcFinish(c) ==
    /\ conc_pc[c] = "add"
    /\ conc_pc' = [conc_pc EXCEPT ![c] = "done"]
    /\ IF valid_positions(conc_emb[c]) = {}
       THEN UNCHANGED <<add_attempts, readded, collection>>
       ELSE LET batch == added_records(xlsx.rows, conc_ids[c], texts_of(conc_ids[c]),
                                       conc_emb[c])
                held == {r \in batch : \E q \in collection : q.id = r.id}
            IN  /\ add_attempts' = Append(add_attempts, {r.id : r \in batch})
                /\ readded' = readded \cup {r.id : r \in held}
                /\ \E add_ok \in BOOLEAN :
                     collection' = collection_after_add(collection, batch \ held, add_ok)
    /\ UNCHANGED <<conc_ids, conc_emb>>
    /\ UNCHANGED otherThanConc

ConcBegin == \E c \in Callers : ConcStart(c)
ConcEmbedded == \E c \in Callers : ConcEmbed(c)
ConcEnd == \E c \in Callers : ConcFinish(c)

NextConcurrent == ConcBegin \/ ConcEmbedded \/ ConcEnd

(***************************************************************************)
(* Specifications.                                                         *)
(***************************************************************************)
vars ==
    <<normVars, cfgVars, appVars, genVars, embVars, popVars, qryVars, extVars, epVars,
      concVars>>

\* The Output Normalizer and the final assembly of extract, for every LLM
\* response of the model.
InitNorm ==
    /\ NormCalled
    /\ ConfigIdle
    /\ AppServing
    /\ GenIdle
    /\ EmbIdle
    /\ PopIdle
    /\ QryIdle
    /\ ExtIdle
    /\ EpIdle
    /\ ConcIdle
SpecNorm == InitNorm /\ [][NextNorm]_vars

\* One call of get_gemini_generation against every behaviour of the provider,
\* with and without a configured credential.
InitGen ==
    /\ GenCalled
    /\ NormIdle
    /\ EmbIdle
    /\ PopIdle
    /\ GEMINI_API_KEY \in BOOLEAN
    /\ TOP_K_RETRIEVAL = 3
    /\ CHROMA_DB_PATH = "dir"
    /\ AppServing
    /\ QryIdle
    /\ ExtIdle
    /\ EMBEDDING_BATCH_SIZE = 50
    /\ EpIdle
    /\ ConcIdle
SpecGen == InitGen /\ [][NextGen]_vars

\* One call of get_gemini_embeddings_batch against every behaviour of the
\* provider, for every batch size the configuration can hold (config.py
\* prints an invalid value and goes on) up to the number of texts.
InitEmbed ==
    /\ EmbCalled
    /\ NormIdle
    /\ GenIdle
    /\ PopIdle
    /\ GEMINI_API_KEY \in BOOLEAN
    /\ TOP_K_RETRIEVAL = 3
    /\ CHROMA_DB_PATH = "dir"
    /\ AppServing
    /\ QryIdle
    /\ ExtIdle
    /\ EMBEDDING_BATCH_SIZE \in -1..MaxTexts
    /\ EpIdle
    /\ ConcIdle
SpecEmbed == InitEmbed /\ [][NextEmbed]_vars

\* Calls of populate_from_xlsx, one after the other, on one manager.
InitPopulate ==
    /\ PopCalled
    /\ EmbIdle
    /\ NormIdle
    /\ GenIdle
    /\ GEMINI_API_KEY = TRUE
    /\ TOP_K_RETRIEVAL = 3
    /\ CHROMA_DB_PATH = "dir"
    /\ AppServing
    /\ QryIdle
    /\ ExtIdle
    /\ EMBEDDING_BATCH_SIZE \in {1, 50}
    /\ EpIdle
    /\ ConcIdle
SpecPopulate == InitPopulate /\ [][NextPopulate]_vars

\* The process from its start, under every setting of Settings.
InitStartup ==
    /\ AppStarted
    /\ Settings
    /\ StartupStore
    /\ EmbIdle
    /\ NormIdle
    /\ GenIdle
    /\ QryIdle
    /\ ExtIdle
    /\ EpIdle
    /\ ConcIdle
SpecStartup == InitStartup /\ [][NextStartup]_vars

\* One call of query_documents, for every k of QueryKs, on a collection of
\* zero to three records.
InitQuery ==
    /\ QueryStore
    /\ QryIdle
    /\ ExtIdle
    /\ EmbIdle
    /\ NormIdle
    /\ GenIdle
    /\ ConfigIdle
    /\ AppServing
    /\ EpIdle
    /\ ConcIdle
SpecQuery == InitQuery /\ [][NextQuery]_vars

\* One call of extract_contract_details_from_text, with and without RAG,
\* against every behaviour of the store and of the two providers.
InitExtract ==
    /\ ExtCalled
    /\ QueryStore
    /\ collection \in {{}, {OldRecord}, {OldRecord, SecondRecord}}
    /\ QryIdle
    /\ EmbIdle
    /\ GenIdle
    /\ AppServing
    /\ GEMINI_API_KEY \in BOOLEAN
    /\ TOP_K_RETRIEVAL \in {1, MaxK}
    /\ EMBEDDING_BATCH_SIZE = 50
    /\ CHROMA_DB_PATH = "dir"
    /\ EpIdle
    /\ ConcIdle
SpecExtract == InitExtract /\ [][NextExtract]_vars

\* Requests to POST /admin/populate-database against every source file of
\* the model, over an empty or an already populated collection.
InitEndpoint ==
    /\ PopCalled
    /\ EmbIdle
    /\ NormIdle
    /\ GenIdle
    /\ QryIdle
    /\ ExtIdle
    /\ ConfigIdle
    /\ AppServing
    /\ EpIdle
    /\ ConcIdle
SpecEndpoint == InitEndpoint /\ [][NextEndpoint]_vars

\* Callers of populate_from_xlsx without force at the same time, over an
\* empty or an already populated collection and every source file.
InitConcurrent ==
    /\ PopCalled
    /\ EmbIdle
    /\ NormIdle
    /\ GenIdle
    /\ QryIdle
    /\ ExtIdle
    /\ ConfigIdle
    /\ AppServing
    /\ EpIdle
    /\ ConcIdle
SpecConcurrent == InitConcurrent /\ [][NextConcurrent]_vars

(***************************************************************************)
(* Claims about the Output Normalizer and the result of extract.           *)
(***************************************************************************)
ExtractReturnedMapping == norm_pc = "done" /\ extract_result.t = "dict"

\* C1: every non-null result of extract contains all six keys
\* (agreement_value, agreement_start_date, agreement_end_date,
\* renewal_notice_days, party_one, party_two), and a key the LLM object
\* omitted or nulled is present with the value null.
C1_SixKeysAlwaysPresent ==
    ExtractReturnedMapping =>
        /\ SixKeys \subseteq DOMAIN extract_result.d
        /\ \A key \in SixKeys :
              dict_get(raw_extracted.d, key).t = "None" => extract_result.d[key].t = "None"

\* C2: a string or null the LLM object carries under party_one or party_two
\* is the value the result of extract carries under the same key.
C2_PartiesPassedThrough ==
    ExtractReturnedMapping =>
        \A key \in {"party_one", "party_two"} :
            (key \in DOMAIN raw_extracted.d /\ raw_extracted.d[key].t \in {"str", "None"})
                => /\ key \in DOMAIN extract_result.d
                   /\ extract_result.d[key] = raw_extracted.d[key]

\* C3: the Output Normalizer (robust_json_parser, then
\* process_extracted_data) never raises for any LLM response: the parser
\* ends with null or a mapping, null whenever the response has no brace
\* pair, and field coercion of a parsed mapping ends with a mapping of the
\* coerced fields, whatever malformed value a field holds.
C3_NormalizerNeverRaises ==
    /\ raw_extracted.t \in {"None", "dict"}
    /\ processed_data.t \in {"None", "dict"}
    /\ (norm_pc # "parse" /\ ("{" \notin Range(llm_text) \/ "}" \notin Range(llm_text)))
          => raw_extracted.t = "None"
    /\ norm_pc \in {"assemble", "done"} /\ Truthy(raw_extracted)
          => /\ processed_data.t = "dict"
             /\ DOMAIN processed_data.d = processed_keys
             /\ \A key \in processed_keys : ~IsRaise(processed_data.d[key])

\* C3 witness: an agreement_value with two decimal points went through
\* field coercion and came out null.
C3_Witness ==
    /\ norm_pc = "done"
    /\ raw_extracted.t = "dict"
    /\ dict_get(raw_extracted.d, "agreement_value") = PyStr(<<"1", ".", "2", ".", "3">>)
    /\ processed_data.t = "dict"
    /\ processed_data.d["agreement_value"] = None

(***************************************************************************)
(* Claims about get_gemini_generation.                                     *)
(***************************************************************************)
GenTransient == gen_response.kind = "error" /\ gen_response.error \in TransientErrors

\* C9: generate calls the provider at most 3 times for one prompt; a
\* transient error is followed by the delay and another attempt while
\* attempts remain; the call always terminates; it returns null once all
\* attempts failed with transient errors; a non-transient error returns null
\* at once; an empty prompt returns null with zero provider calls.
C9_GenerateBoundedRetries ==
    /\ gen_calls <= 3
    /\ gen_sleeps <= 2
    /\ gen_pc = "call" => gen_sleeps = gen_calls /\ gen_calls < 3
    /\ gen_pc = "sleep" => gen_sleeps = gen_calls - 1
    /\ (GenTransient /\ gen_calls < 3) => gen_pc \in {"sleep", "call"}
    /\ (GenTransient /\ gen_calls = 3) => gen_pc = "done" /\ gen_result = None
    /\ (gen_response.kind = "error" /\ ~GenTransient) => gen_pc = "done" /\ gen_result = None
    /\ gen_prompt = <<>> => gen_calls = 0 /\ gen_result = None /\ gen_pc \in {"idle", "enter", "done"}
    /\ gen_pc \in {"idle", "done"} \/ ENABLED NextGen

\* C9 witness: three attempts, each ended by a transient error, two delays
\* between them, and null returned.
C9_Witness ==
    /\ gen_pc = "done"
    /\ GenTransient
    /\ gen_calls = 3
    /\ gen_sleeps = 2
    /\ gen_result = None

\* C10: a provider call that returns without error decides the outcome, with
\* no retry: text is returned only if the first candidate has content parts;
\* a response without candidates (with or without a block reason), a
\* candidate without parts (whatever its finish reason) and a malformed
\* response yield null; nothing is raised to the caller.
C10_ResponseDecidesOutcome ==
    gen_response.kind = "response" =>
        /\ gen_pc = "done"
        /\ ~IsRaise(gen_result)
        /\ gen_result.t = "str" =>
             gen_response.candidates /\ gen_response.parts /\ gen_result.s = gen_response.text
        /\ (~gen_response.candidates \/ ~gen_response.parts \/ gen_response.broken)
             => gen_result = None

\* C10 witness: the first call returned a response without candidates that
\* reports a block reason, and generate returned null after that one call.
C10_Witness ==
    /\ gen_pc = "done"
    /\ gen_response.kind = "response"
    /\ ~gen_response.candidates
    /\ gen_response.block_reason
    /\ gen_calls = 1
    /\ gen_result = None

EmbTransient == emb_last \in TransientErrors

\* ceil(n / size) for a positive size
CeilDiv(n, size) == (n + size - 1) \div size

\* C7: get_gemini_embeddings_batch returns on every path a list as long as
\* texts in which position i holds null or the vector of texts[i], and an
\* empty texts returns an empty list without a provider call.
C7_SameLengthSameOrder ==
    emb_pc = "done" =>
        /\ Len(emb_result) = Len(emb_texts)
        /\ \A i \in 1..Len(emb_result) :
             emb_result[i] = None \/ emb_result[i] = Vec(emb_texts[i])
        /\ emb_texts = <<>> => emb_calls = 0

\* C8: a transient error drops the vectors of the attempt and, after one
\* delay, the next attempt starts again at the first chunk; there are at
\* most retries attempts and so at most retries * ceil(n / batch size)
\* provider calls, and a call that ends on a transient error returns all
\* nulls, as long as texts, and no exception.
C8_EmbedRetriesWholeInput ==
    /\ emb_attempt < retries
    /\ emb_sleeps = emb_attempt
    /\ (emb_pc = "call" /\ (EmbTransient \/ emb_i = 0)) =>
           emb_i = 0 /\ emb_current = <<>>
    /\ emb_pc = "sleep" => emb_attempt < retries - 1
    /\ emb_calls <= (emb_attempt + 1) *
           (IF EMBEDDING_BATCH_SIZE >= 1
            THEN CeilDiv(Len(emb_texts), EMBEDDING_BATCH_SIZE) ELSE 0)
    /\ (emb_pc = "done" /\ EmbTransient) =>
           /\ emb_attempt = retries - 1
           /\ emb_result = Nones(Len(emb_texts))

\* Every attempt ended on a transient error, the last one after an earlier
\* chunk of it had been answered with vectors.
C8_Witness ==
    /\ emb_pc = "done"
    /\ EmbTransient
    /\ emb_sleeps = retries - 1
    /\ emb_current # <<>>
    /\ emb_calls > retries
    /\ emb_result = Nones(Len(emb_texts))

\* C5: a call of populate_from_xlsx without force on a collection that
\* holds a record returns at once: it reads no file, starts no embedding
\* call, deletes and adds nothing, and leaves the collection, so its count,
\* as it was; this holds for every such call, however many came before.
C5_NonForcePopulateIsNoOp ==
    [][(pop_calls' = pop_calls + 1 /\ ~pop_force' /\ collection # {}) =>
           /\ pop_outcome' = "skipped"
           /\ pop_pc' = "idle"
           /\ collection' = collection
           /\ Cardinality(collection') = Cardinality(collection)
           /\ pop_reads' = pop_reads
           /\ pop_writes' = pop_writes
           /\ pop_deletes' = pop_deletes
           /\ UNCHANGED embVars]_vars

\* A second call in a row was skipped, on a collection an earlier call of
\* the run had filled.
C5_Witness ==
    /\ pop_outcome = "skipped"
    /\ pop_calls = MaxPopulateCalls
    /\ pop_writes = 1
    /\ pop_reads = 1
    /\ collection # {}
    /\ OldRecord \notin collection

\* The text cell of row index of the sheet holds a non-empty string.
TextPresent(index) ==
    /\ xlsx.kind = "rows"
    /\ index + 1 \in 1..Len(xlsx.rows)
    /\ xlsx.rows[index + 1].Text.t = "str"
    /\ xlsx.rows[index + 1].Text.s # ""

\* C6: populate skips a row whose text cell is blank (NaN) or empty: the row
\* is not handed to the embedding call and not stored, so every record
\* stored from the sheet carries the text its row holds; and the rows with a
\* text are all handed on, whatever rows were skipped.
C6_RowsWithoutTextRejected ==
    /\ pop_pc = "embed" =>
           /\ \A j \in 1..Len(pop_ids) : TextPresent(pop_ids[j])
           /\ \A index \in 0..(Len(xlsx.rows) - 1) :
                TextPresent(index) => index \in Range(pop_ids)
    /\ \A r \in collection \ {OldRecord} :
           /\ TextPresent(r.original_xlsx_index)
           /\ r.document = xlsx.rows[r.original_xlsx_index + 1].Text.s

\* The configuration validate_config is there to refuse.
ConfigInvalid ==
    \/ ~GEMINI_API_KEY
    \/ TOP_K_RETRIEVAL <= 0
    \/ EMBEDDING_BATCH_SIZE \notin 1..100

\* C4: with the credential absent, TOP_K_RETRIEVAL not positive or
\* EMBEDDING_BATCH_SIZE outside 1..100, the process never reaches the state
\* in which it serves extraction or ingestion requests.
C4_InvalidConfigNeverServes ==
    ConfigInvalid => app_phase # "serving"

(***************************************************************************)
(* Claims about extract_contract_details_from_text as a whole.             *)
(***************************************************************************)
\* extract has returned.
ExtractDone == ext_pc = "done" \/ (ext_pc = "normalize" /\ norm_pc = "done")

\* C11: extract called with an empty input_text returns null at once and
\* calls neither the vector store nor the embedding provider nor the
\* generative provider, with use_rag true and with use_rag false.
C11_EmptyInputNoCalls ==
    (input_text = "" /\ ext_pc # "enter") =>
        /\ ext_pc = "done"
        /\ extract_result = None
        /\ ext_queries = 0
        /\ qry_pc = "idle"
        /\ qry_requested = <<>>
        /\ emb_pc = "idle"
        /\ emb_calls = 0
        /\ ext_generations = 0
        /\ gen_pc = "idle"
        /\ gen_calls = 0

\* The call with an empty text and RAG asked for, on a store that holds
\* records, has returned.
C11_Witness ==
    /\ input_text = ""
    /\ use_rag
    /\ collection # {}
    /\ ext_pc = "done"
    /\ extract_result = None

\* The retrieval of a call with RAG failed: the collection was empty, or
\* the query text got no embedding, or the search of the store raised.
RetrievalFailed ==
    /\ use_rag
    /\ ext_pc \in {"generate", "normalize"}
    /\ \/ qry_n = 0
       \/ qry_requested = <<>>
       \/ qry_answer.kind = "error"

\* What the tail of extract makes of a response, as a function of the
\* response and of the object it denotes alone.
NormalizedResponse(response, obj) ==
    IF ~Truthy(response) THEN None
    ELSE LET parsed == robust_json_parser(response.s, obj)
         IN  IF ~Truthy(parsed) THEN None
             ELSE final_data_of(process_extracted_data(parsed.d).d)

\* C12: with use_rag, a failed retrieval is an empty list of contexts and
\* no error: the prompt is built without a section of examples,
\* get_gemini_generation is called exactly once, and the result is decided
\* by the response of the generative provider alone.
C12_FailedRetrievalProceeds ==
    RetrievalFailed =>
        /\ retrieved_contexts = ContextList(<<>>)
        /\ ext_queries = 1
        /\ ext_generations = 1
        /\ ext_pc = "generate" =>
               /\ gen_pc # "idle"
               /\ gen_prompt = <<[part |-> "instructions"],
                                 [part |-> "primary_text", text |-> input_text],
                                 [part |-> "request"]>>
        /\ ExtractDone =>
               /\ ~IsRaise(extract_result)
               /\ extract_result = NormalizedResponse(llm_response_text, llm_object)

\* The search of the store raised, and extract returned a mapping all the
\* same.
C12_Witness ==
    /\ RetrievalFailed
    /\ qry_answer.kind = "error"
    /\ ExtractDone
    /\ extract_result.t = "dict"

\* C13: extract returns null in exactly three cases: the input text is
\* empty, get_gemini_generation returned null, or the normalizer found no
\* JSON object in the response or could not parse it.  When the response
\* parses to an object, the empty object included, the result is a mapping
\* in which every key the object omits is null.
C13_NullExactlyInThreeCases ==
    ExtractDone =>
        /\ (extract_result = None) <=>
               (input_text = "" \/ llm_response_text = None \/ raw_extracted.t # "dict")
        /\ raw_extracted.t = "dict" =>
               /\ extract_result.t = "dict"
               /\ \A key \in SixKeys \ DOMAIN llm_object :
                      /\ key \in DOMAIN extract_result.d
                      /\ extract_result.d[key] = None

(***************************************************************************)
(* Claims about query_documents.                                           *)
(***************************************************************************)
\* C14: a query for k on a collection of n > 0 records asks the store for
\* min(k, n) neighbours and returns at most min(k, n) entries, the hits of
\* the store in the order the store gave them and nothing else; asking for
\* more than the collection holds is no error.
C14_QueryClampsK ==
    (qry_pc = "done" /\ qry_n > 0) =>
        LET clamped == IF qry_k < qry_n THEN qry_k ELSE qry_n
        IN  /\ Len(qry_requested) <= 1
            /\ \A c \in 1..Len(qry_requested) : qry_requested[c] = clamped
            /\ qry_k >= 1 => Len(qry_result) <= clamped
            /\ Len(qry_result) = Len(qry_answer.hits)
            /\ \A i \in 1..Len(qry_result) :
                 /\ qry_result[i].id = qry_answer.hits[i].id
                 /\ qry_result[i].text = qry_answer.hits[i].document
                 /\ qry_answer.hits[i] \in collection
                 /\ \A j \in 1..Len(qry_result) :
                      i < j => qry_result[i].distance <= qry_result[j].distance

\* A query for more than the collection holds returned all of its records.
C14_Witness ==
    /\ qry_pc = "done"
    /\ qry_n >= 2
    /\ qry_k > qry_n
    /\ qry_requested = <<qry_n>>
    /\ Len(qry_result) = qry_n

\* C15, as stated: a query on an empty collection returns an empty list
\* without error and without a search of the store, and computes the
\* embedding of the query text exactly once.
C15_EmptyCollectionEmbedsOnce ==
    (qry_pc = "done" /\ qry_n = 0) =>
        /\ qry_result = <<>>
        /\ qry_requested = <<>>
        /\ qry_embeds = 1

\* C15, amended: a query on an empty collection returns an empty list
\* without error, without a search of the store and without computing the
\* embedding of the query text: get_gemini_embeddings_batch is not called.
C15_EmptyCollectionNoEmbedding ==
    (qry_pc = "done" /\ qry_n = 0) =>
        /\ qry_result = <<>>
        /\ qry_requested = <<>>
        /\ qry_answer = NoAnswer
        /\ qry_embeds = 0
        /\ emb_pc = "idle"
        /\ emb_calls = 0

\* A query for at least one neighbour on the empty collection returned.
C15_Witness ==
    /\ qry_pc = "done"
    /\ collection = {}
    /\ qry_n = 0
    /\ qry_k >= 1
    /\ qry_result = <<>>

(***************************************************************************)
(* Claims about populate_from_xlsx with force_repopulate, and about what   *)
(* it writes.                                                              *)
(***************************************************************************)
\* The reset of the latest call failed.
ResetFailed(outcome) == outcome \in {"delete_failed", "recreate_failed"}

\* C16: a forced call of populate_from_xlsx deletes the collection before
\* anything else, whatever it holds; when the deletion and the recreation
\* succeed, the call goes on from an empty collection, so no record from
\* before the call is left; when either fails, the call ends there: it
\* reads no file, asks for no embedding and writes nothing, and a failed
\* deletion leaves the records as they were.
C16_ForceDeletesFirst ==
    /\ [][(pop_calls' = pop_calls + 1 /\ pop_force') =>
             /\ pop_deletes' = pop_deletes + 1
             /\ ~ResetFailed(pop_outcome') => collection' = {}
             /\ ResetFailed(pop_outcome') =>
                  /\ pop_pc' = "idle"
                  /\ pop_reads' = pop_reads
                  /\ pop_writes' = pop_writes
                  /\ UNCHANGED embVars
             /\ pop_outcome' = "delete_failed" => collection' = collection
             /\ pop_outcome' = "recreate_failed" => collection' = {}]_vars
    /\ [][(pop_pc = "embed" /\ pop_pc' = "idle" /\ pop_force) =>
             collection' \subseteq
                 added_records(xlsx.rows, pop_ids, emb_texts, emb_result)]_vars
    /\ []((pop_force /\ pop_outcome # "delete_failed") => OldRecord \notin collection)

\* A forced call, made after a call that was skipped because the collection
\* held the old record, has stored the rows of the sheet.
C16_Witness ==
    /\ pop_calls = 2
    /\ pop_force
    /\ pop_deletes = 1
    /\ pop_reads = 1
    /\ pop_writes = 1
    /\ pop_outcome = "added"
    /\ collection # {}
    /\ OldRecord \notin collection

\* The record of the accepted row at position j of the embedding call: the
\* id, the text as a string and the row index of that row, with the
\* embedding at position j.
RecordOfRow(j) ==
    LET row == xlsx.rows[pop_ids[j] + 1]
    IN  [id |-> <<"doc", pop_ids[j], py_str(row.File_Name)>>,
         document |-> py_str(row.Text),
         embedding |-> emb_result[j],
         original_xlsx_index |-> pop_ids[j]]

\* C17: when the embedding call of populate_from_xlsx has returned, the
\* accepted rows whose embedding is not null, and only they, are written,
\* each with its own id, text and row index and the embedding at its own
\* position, by one collection.add; a row whose embedding is null is not
\* written; when every embedding is null the call ends with the outcome
\* "no_embeddings" and without a write.
C17_NonNullEmbeddingsWritten ==
    [][(pop_pc = "embed" /\ pop_pc' = "idle") =>
          LET kept == {j \in 1..Len(emb_result) : emb_result[j] # None}
          IN  /\ Len(emb_result) = Len(pop_ids)
              /\ \A j \in 1..Len(pop_ids) :
                   emb_texts[j] = py_str(xlsx.rows[pop_ids[j] + 1].Text)
              /\ kept = {} =>
                   /\ pop_outcome' = "no_embeddings"
                   /\ pop_writes' = pop_writes
                   /\ collection' = collection
              /\ kept # {} =>
                   /\ pop_writes' = pop_writes + 1
                   /\ pop_outcome' \in {"added", "add_failed"}
              /\ pop_outcome' = "added" =>
                   collection' = collection \cup {RecordOfRow(j) : j \in kept}
              /\ pop_outcome' = "add_failed" => collection' = collection
              /\ \A r \in collection' : r.embedding # None]_vars

\* A sheet of two rows with a text was read, one row got its embedding and
\* the other did not, and one record was written.
C17_Witness ==
    /\ pop_pc = "idle"
    /\ pop_outcome = "added"
    /\ pop_writes = 1
    /\ Len(pop_ids) = 2
    /\ Cardinality(collection) = 1
    /\ \E r \in collection : r.original_xlsx_index \in Range(pop_ids)

(***************************************************************************)
(* Claims about POST /admin/populate-database.                             *)
(***************************************************************************)
\* populate_from_xlsx ended on one of its failures.
PopulationFailed ==
    pop_outcome \in {"file_not_found", "read_error", "no_columns", "delete_failed",
                     "recreate_failed", "no_embeddings", "add_failed", "raised"}

\* C18: the endpoint answers 404 when the source file does not exist, 500
\* when the population fails (unreadable file, missing columns, failed
\* deletion of a forced call, no embedding left, failed store write), and
\* 200 only when the population did not fail.
C18_EndpointStatus ==
    (ep_pc = "idle" /\ ep_status # 0) =>
        /\ ep_status \in {200, 404, 500}
        /\ ep_status = 404 <=> xlsx.kind = "missing"
        /\ (xlsx.kind # "missing" /\ PopulationFailed) => ep_status = 500
        /\ ep_status = 200 => ~PopulationFailed

(***************************************************************************)
(* Claims about the dates of the result.                                   *)
(***************************************************************************)
DateKeys == {"agreement_start_date", "agreement_end_date"}

\* A string of the form YYYY-MM-DD.
IsIsoDateString(val) ==
    /\ val.t = "str"
    /\ Len(val.s) = 5
    /\ val.s[1].k = "num" /\ val.s[1].w = 4
    /\ val.s[2] = Lit("-")
    /\ val.s[3].k = "num" /\ val.s[3].w = 2 /\ val.s[3].v \in 1..12
    /\ val.s[4] = Lit("-")
    /\ val.s[5].k = "num" /\ val.s[5].w = 2 /\ val.s[5].v \in 1..31

\* C19: in every non-null result of extract, agreement_start_date and
\* agreement_end_date are each null or a string of the form YYYY-MM-DD,
\* whatever date value the LLM object carries.
C19_DatesIsoOrNull ==
    ExtractReturnedMapping =>
        \A key \in DateKeys :
            /\ key \in DOMAIN extract_result.d
            /\ extract_result.d[key] = None \/ IsIsoDateString(extract_result.d[key])

\* What the claim expects of a date value: null for a non-string or a blank
\* string, else the date read by the first format of the list that parses
\* the trimmed string, else the trimmed string.
ExpectedDate(val) ==
    IF val.t # "str" THEN None
    ELSE LET stripped == Strip(val.s, {WS})
             parsing == {i \in 1..Len(common_formats) :
                           ~IsRaise(strptime(stripped, common_formats[i]))}
         IN  IF stripped = <<>> THEN None
             ELSE IF parsing = {} THEN PyStr(stripped)
             ELSE LET first == CHOOSE i \in parsing : \A other \in parsing : i <= other
                  IN  strftime_iso(strptime(stripped, common_formats[first]))

\* C20: the date of a field is decided by the first format of the list, in
\* its declared order, that parses the value: 20/05/2007 is read day-first
\* as 2007-05-20, 03/04/2007 is read by the earlier month-first slash format
\* as 2007-03-04 and 03-04-2007 by the earlier day-first dash format as
\* 2007-04-03; a value that is no string or is blank gives null; a string no
\* format parses is returned trimmed and otherwise unchanged.
C20_FirstFormatDecides ==
    (norm_pc \in {"assemble", "done"} /\ processed_data.t = "dict") =>
        \A key \in DateKeys :
            LET val == dict_get(raw_extracted.d, key)
                date == processed_data.d[key]
            IN  /\ date = ExpectedDate(val)
                /\ val = PyStr(Sep3(Num(20, 2), "/", Num(5, 2), Num(2007, 4)))
                     => date = PyStr(IsoDate(2007, 5, 20))
                /\ val = PyStr(Sep3(Num(3, 2), "/", Num(4, 2), Num(2007, 4)))
                     => date = PyStr(IsoDate(2007, 3, 4))
                /\ val = PyStr(Sep3(Num(3, 2), "-", Num(4, 2), Num(2007, 4)))
                     => date = PyStr(IsoDate(2007, 4, 3))
                /\ val \in {None, PyInt(2007), PyList, PyStr(<<>>), PyStr(<<WS>>)}
                     => date = None
                /\ val = PyStr(<<Mon(5, 3), WS, Num(2007, 4)>>) => date = val
                /\ val = PyStr(<<WS>> \o IsoDate(2007, 5, 20) \o <<WS>>)
                     => date = PyStr(IsoDate(2007, 5, 20))

\* The start date 03/04/2007, which both slash formats parse, went through
\* the normalizer.
C20_Witness ==
    /\ norm_pc = "done"
    /\ raw_extracted.t = "dict"
    /\ dict_get(raw_extracted.d, "agreement_start_date")
         = PyStr(Sep3(Num(3, 2), "/", Num(4, 2), Num(2007, 4)))
    /\ extract_result.t = "dict"
    /\ extract_result.d["agreement_start_date"] = PyStr(IsoDate(2007, 3, 4))

(***************************************************************************)
(* Claims about the coercion of agreement_value and renewal_notice_days.   *)
(***************************************************************************)
\* Field coercion has produced its mapping.
FieldsProcessed == norm_pc \in {"assemble", "done"} /\ processed_data.t = "dict"

\* The characters of s that are in keep, in their order.
Kept(s, keep) == SelectSeq(s, LAMBDA c : c \in keep)

\* What the claim expects of an agreement_value: a number (bool is a
\* subclass of int) as it is; for a string, by its digits and decimal
\* points: null when there are none, the integer when there is no point,
\* the float when there is one point and a digit, null otherwise; null for
\* anything else.
ExpectedValue(val) ==
    IF val.t \in {"int", "float", "bool"} THEN val
    ELSE IF val.t # "str" THEN None
    ELSE LET rest == Kept(val.s, Digits \cup {"."})
             digs == Kept(val.s, Digits)
             points == {i \in 1..Len(rest) : rest[i] = "."}
         IN  IF rest = <<>> THEN None
             ELSE IF points = {} THEN PyInt(DigitsToNat(digs))
             ELSE IF Cardinality(points) = 1 /\ digs # <<>>
             THEN PyFloat(DigitsToNat(digs), Len(rest) - (CHOOSE i \in points : TRUE))
             ELSE None

\* C21: agreement_value of the processed mapping is the number the LLM
\* object carries, or what the digits and decimal points of its string give
\* (null, an integer, a float, null when they do not parse), or null for
\* any other type and for a missing key; "P6,500.00" gives 6500.0, "10000"
\* gives 10000 and "1.2.3" gives null.
C21_AgreementValueCoercion ==
    FieldsProcessed =>
        LET val == dict_get(raw_extracted.d, "agreement_value")
            got == processed_data.d["agreement_value"]
        IN  /\ got = ExpectedValue(val)
            /\ got.t \in {"None", "int", "float", "bool"}
            /\ val = PyStr(<<"P", "6", ",", "5", "0", "0", ".", "0", "0">>)
                 => got = PyFloat(650000, 2)
            /\ val = PyStr(<<"1", "0", "0", "0", "0">>) => got = PyInt(10000)
            /\ val = PyStr(<<"1", ".", "2", ".", "3">>) => got = None
            /\ val \in {None, PyList} => got = None
            /\ "agreement_value" \notin DOMAIN raw_extracted.d => got = None

\* The currency-prefixed amount went through field coercion.
C21_Witness ==
    /\ norm_pc = "done"
    /\ raw_extracted.t = "dict"
    /\ dict_get(raw_extracted.d, "agreement_value")
         = PyStr(<<"P", "6", ",", "5", "0", "0", ".", "0", "0">>)
    /\ extract_result.t = "dict"
    /\ extract_result.d["agreement_value"] = PyFloat(6500, 0)

\* What the claim expects of a renewal_notice_days: an integer (bool is a
\* subclass of int) as it is; for a string, the integer it spells, else the
\* integer of its first run of digits, else null; null for anything else.
ExpectedDays(val) ==
    IF val.t \in {"int", "bool"} THEN val
    ELSE IF val.t # "str" THEN None
    ELSE LET direct == py_int(val.s)
             at == {i \in 1..Len(val.s) : val.s[i] \in Digits}
         IN  IF ~IsRaise(direct) THEN direct
             ELSE IF at = {} THEN None
             ELSE LET first == CHOOSE i \in at : \A j \in at : i <= j
                      last == CHOOSE i \in at :
                                /\ i >= first
                                /\ \A j \in first..i : j \in at
                                /\ i + 1 \notin at
                  IN  PyInt(DigitsToNat(SubSeq(val.s, first, last)))

\* C22: renewal_notice_days of the processed mapping is the integer the LLM
\* object carries, or the integer its string spells, or the integer of the
\* first run of digits of the string ("60 days" gives 60), or null for a
\* string without a digit ("two months"), for a float, a list, an object
\* and a missing key; it is always an integer or null.
C22_RenewalDaysCoercion ==
    FieldsProcessed =>
        LET val == dict_get(raw_extracted.d, "renewal_notice_days")
            got == processed_data.d["renewal_notice_days"]
        IN  /\ got = ExpectedDays(val)
            /\ got.t \in {"None", "int", "bool"}
            /\ val = PyInt(30) => got = PyInt(30)
            /\ val = PyStr(<<"6", "0", " ", "d", "a", "y", "s">>) => got = PyInt(60)
            /\ val = PyStr(<<"-", "6">>) => got = PyInt(0 - 6)
            /\ val = PyStr(<<"t", "w", "o", " ", "m", "o", "n", "t", "h", "s">>)
                 => got = None
            /\ val \in {None, PyFloat(305, 1), PyList, PyDict(<<>>)} => got = None
            /\ "renewal_notice_days" \notin DOMAIN raw_extracted.d => got = None

\* The notice "60 days" went through field coercion.
C22_Witness ==
    /\ norm_pc = "done"
    /\ raw_extracted.t = "dict"
    /\ dict_get(raw_extracted.d, "renewal_notice_days")
         = PyStr(<<"6", "0", " ", "d", "a", "y", "s">>)
    /\ extract_result.t = "dict"
    /\ extract_result.d["renewal_notice_days"] = PyInt(60)

(***************************************************************************)
(* Claims about the order of the calls of extract.                         *)
(***************************************************************************)
\* get_gemini_generation has been called by extract.
GenerationStarted == ext_generations > 0 \/ gen_pc # "idle" \/ gen_calls > 0

\* C23: a call of extract with use_rag false makes no call of
\* query_documents, so no count and no search of the store and no call of
\* get_gemini_embeddings_batch; its prompt has no examples section and it
\* calls get_gemini_generation once and nothing else.  A call with use_rag
\* true has ended its retrieval (the count, the embedding of the query, the
\* search) before get_gemini_generation is called.
C23_RagFlagDecidesRetrieval ==
    /\ (~use_rag /\ input_text # "") =>
          /\ ext_queries = 0
          /\ qry_pc = "idle"
          /\ qry_embeds = 0
          /\ qry_requested = <<>>
          /\ emb_pc = "idle"
          /\ emb_calls = 0
          /\ retrieved_contexts = None
          /\ ext_pc # "enter" => ext_generations = 1
          /\ ext_pc = "generate" =>
                gen_prompt = <<[part |-> "instructions"],
                               [part |-> "primary_text", text |-> input_text],
                               [part |-> "request"]>>
    /\ (use_rag /\ GenerationStarted) =>
          /\ ext_queries = 1
          /\ qry_pc = "done"
          /\ emb_pc = "idle"
          /\ retrieved_contexts = ContextList(qry_result)
          /\ ext_generations = 1
    /\ (qry_pc = "embed" \/ emb_pc # "idle") =>
          /\ use_rag
          /\ ~GenerationStarted

\* A call without RAG on a store that holds records returned a mapping.
C23_Witness ==
    /\ ~use_rag
    /\ input_text # ""
    /\ collection # {}
    /\ ExtractDone
    /\ ext_generations = 1
    /\ extract_result.t = "dict"

(***************************************************************************)
(* Claims about the collection a call of populate_from_xlsx leaves.        *)
(***************************************************************************)
\* A step that enters populate_from_xlsx, and the step that ends a call
\* that asked for embeddings.
PopulateEntered == pop_calls' = pop_calls + 1
PopulateEnded == pop_pc = "embed" /\ pop_pc' = "idle"

\* C24: in a run of one caller, a call of populate_from_xlsx leaves the
\* collection (a) as it found it, (b) holding exactly the records of its
\* accepted rows with a non-null embedding, or (c) empty.  Without force
\* the call goes past the gate only on an empty collection, and every
\* failure (no file, unreadable file, missing columns, no accepted row, no
\* embedding, failed add) leaves the collection as it was; with force a
\* failed deletion leaves it as it was, and a call whose deletion succeeded
\* leaves (b) or, on any failure after it, (c): the old records are gone.
C24_PopulatePostcondition ==
    [][/\ PopulateEntered =>
            /\ ~pop_force' => collection' = collection
            /\ (pop_force' /\ pop_outcome' = "delete_failed") => collection' = collection
            /\ (pop_force' /\ pop_outcome' # "delete_failed") => collection' = {}
            /\ pop_pc' = "embed" => collection' = {}
            /\ pop_pc' = "idle" => pop_outcome' # "added"
       /\ PopulateEnded =>
            LET kept == {j \in 1..Len(emb_result) : emb_result[j] # None}
            IN  /\ collection = {}
                /\ pop_outcome' \in {"added", "add_failed", "no_embeddings"}
                /\ pop_outcome' = "added" =>
                     collection' = {RecordOfRow(j) : j \in kept}
                /\ pop_outcome' # "added" => collection' = {}
       /\ (~PopulateEntered /\ ~PopulateEnded) => collection' = collection]_vars

\* A forced call, made after a call the gate skipped, failed after its
\* deletion and left the collection empty.
C24_Witness ==
    /\ pop_calls = 2
    /\ pop_force
    /\ pop_deletes = 1
    /\ pop_reads = 1
    /\ pop_pc = "idle"
    /\ pop_outcome \in {"no_embeddings", "add_failed"}
    /\ collection = {}

(***************************************************************************)
(* Claims about calls of populate_from_xlsx that run at the same time.     *)
(***************************************************************************)
\* C25: of the calls of populate_from_xlsx without force on one collection
\* and one sheet, in any order and with any interleaving at the boundaries
\* of the provider calls, at most one reaches collection.add, so no id is
\* handed to collection.add twice or while the collection holds it.
C25_GateAdmitsOneAdd ==
    /\ Len(add_attempts) <= 1
    /\ readded = {}
    /\ \A i, j \in 1..Len(add_attempts) :
          i # j => add_attempts[i] \cap add_attempts[j] = {}

====
